---- MODULE Spec2Model ----
(***************************************************************************)
(* Model of the KI-Therapeut analysis core of src/Substanten.py: the two   *)
(* loaders, combine_data, perform_correlation_analysis, the anomaly rule   *)
(* of perform_machine_learning_analysis, generate_comprehensive_report,    *)
(* and the Streamlit handlers that drive them on the session's analyzer.   *)
(*                                                                         *)
(* Numbers.  Python floats are modelled by exact rationals <<num, den>>    *)
(* (den > 0, reduced); float rounding is not modelled.  The one irrational *)
(* quantity, the per-day sample standard deviation of the heart rate, is   *)
(* kept in fixed point, rounded down to 1/StdFix.                          *)
(* Text.  Type labels are sequences of characters, so that lower() and the *)
(* substring test `word in entry_type` are computed as Python computes     *)
(* them.  Date and time texts are taken from a fixed vocabulary and parsed *)
(* by a table of what pandas.to_datetime returns for each of them.         *)
(***************************************************************************)
EXTENDS Integers, Sequences, FiniteSets, TLC

VARIABLES entries, health_data, analyzer, ki_analysis_results,
          correlation_analysis_results, ml_results, report_result, pc,
          correlation_return, heuristics, interpret_call

vars == <<entries, health_data, analyzer, ki_analysis_results,
          correlation_analysis_results, ml_results, report_result, pc,
          correlation_return, heuristics, interpret_call>>

(***************************************************************************)
(* Bounds of the model.                                                    *)
(***************************************************************************)
\* Calendar days the inputs of the correlation runs are spread over, and the
\* health samples and consumption entries of one such run.
MaxDays == 3
MaxSamples == 3
MaxEvents == 2
\* Health samples of one run of the label vocabulary.
MaxLabelled == 2
\* Days of the heart-rate-only tables.
ScenarioDays == 5
\* Calendar days of the session, and the health samples and consumption
\* entries the session holds at most.
SessionDays == 2
MaxHealth == 2
MaxEntries == 2

(***************************************************************************)
(* Text: Python's str.lower() and the substring test.                      *)
(***************************************************************************)
UpperChars == <<"A","B","C","D","E","F","G","H","I","J","K","L","M",
                "N","O","P","Q","R","S","T","U","V","W","X","Y","Z">>

LowerChars == <<"a","b","c","d","e","f","g","h","i","j","k","l","m",
                "n","o","p","q","r","s","t","u","v","w","x","y","z">>

lower_char(c) ==
    IF \E i \in DOMAIN UpperChars : UpperChars[i] = c
    THEN LowerChars[CHOOSE i \in DOMAIN UpperChars : UpperChars[i] = c]
    ELSE c

\* A text compared as it is written.
as_written(s) == s

\* str.lower()
lower(s) == [i \in 1..Len(s) |-> lower_char(s[i])]

\* Python's `w in s` on two strings.
contains(s, w) ==
    \E i \in 0..(Len(s) - Len(w)) : \A j \in 1..Len(w) : s[i + j] = w[j]

\* any(word in s for word in words)
any_word(s, words) == \E w \in words : contains(s, w)

(***************************************************************************)
(* The keyword lists of load_health_data.                                  *)
(***************************************************************************)
SleepWords == { <<"s","l","e","e","p">>, <<"s","c","h","l","a","f">>,
                <<"d","e","e","p">>, <<"s","h","a","l","l","o","w">>,
                <<"r","e","m">>, <<"w","a","k","e">> }

DeepWords == { <<"d","e","e","p">>, <<"t","i","e","f">> }

LightWords == { <<"s","h","a","l","l","o","w">>, <<"l","e","i","c","h","t">> }

RemWords == { <<"r","e","m">> }

WakeWords == { <<"w","a","k","e">>, <<"w","a","c","h">> }

HeartWords == { <<"h","e","a","r","t">>, <<"h","e","r","z">>, <<"h","r">>,
                <<"p","u","l","s","e">>, <<"p","u","l","s">> }

(***************************************************************************)
(* The type labels parse_health_csv writes into 'Type'.                    *)
(***************************************************************************)
Herzfrequenz == <<"H","e","r","z","f","r","e","q","u","e","n","z">>

Schlaf == <<"S","c","h","l","a","f">>

Tiefschlaf == <<"T","i","e","f","s","c","h","l","a","f">>

Leichtschlaf == <<"L","e","i","c","h","t","s","c","h","l","a","f">>

REM_Schlaf == <<"R","E","M","-","S","c","h","l","a","f">>

Wachzeit == <<"W","a","c","h","z","e","i","t">>

Schritte == <<"S","c","h","r","i","t","t","e">>

Unknown == <<"U","n","k","n","o","w","n">>

\* The labels the importer emits for sleep stages, with the subtype each denotes.
ImporterSleepLabels == {Schlaf, Tiefschlaf, Leichtschlaf, REM_Schlaf, Wachzeit}

\* The fixed labels the importer emits for what is neither sleep nor heart rate.
ImporterOtherLabels == {Schritte, Unknown}

ImporterLabels == ImporterSleepLabels \cup ImporterOtherLabels \cup {Herzfrequenz}

(***************************************************************************)
(* Dates and times: pandas.to_datetime on the vocabulary of the model.     *)
(***************************************************************************)
\* ISO texts of consecutive calendar days; IsoDates[d] is day d.
IsoDates == <<"2024-01-01", "2024-01-02", "2024-01-03", "2024-01-04",
              "2024-01-05", "2024-01-06", "2024-01-07", "2024-01-08",
              "2024-01-09", "2024-01-10", "2024-01-11", "2024-01-12">>

\* Another text of day 1, and a text no parser accepts.
SlashDate == "2024/01/01"

BadDate == "kein Datum"

\* The default time of both loaders, an evening time, and an hour that does not exist.
MidnightTime == "00:00"

EveningTime == "20:30"

BadTime == "25:00"

\* The calendar day to_datetime finds in a date text; 0 when it raises.
parse_date(date_str) ==
    IF \E d \in DOMAIN IsoDates : IsoDates[d] = date_str
    THEN CHOOSE d \in DOMAIN IsoDates : IsoDates[d] = date_str
    ELSE IF date_str = SlashDate THEN 1 ELSE 0

\* The hour to_datetime finds in a time text; -1 when it raises.
parse_time(time_str) ==
    CASE time_str = MidnightTime -> 0
      [] time_str = EveningTime -> 20
      [] OTHER -> -1

NaT == [valid |-> FALSE, day |-> 0, hour |-> 0]

Timestamp(d, h) == [valid |-> TRUE, day |-> d, hour |-> h]

isna(dt) == ~dt.valid

\* A parser that gives NaT as soon as the combined text does not parse.
parse_timestamp_without_fallback(date_str, time_str) ==
    IF parse_date(date_str) # 0 /\ parse_time(time_str) # -1
    THEN Timestamp(parse_date(date_str), parse_time(time_str))
    ELSE NaT

\* pd.to_datetime(f"{date_str} {time_str}"), else pd.to_datetime(date_str), else NaT.
parse_timestamp(date_str, time_str) ==
    IF parse_date(date_str) # 0 /\ parse_time(time_str) # -1
    THEN Timestamp(parse_date(date_str), parse_time(time_str))
    ELSE IF parse_date(date_str) # 0
         THEN Timestamp(parse_date(date_str), 0)
         ELSE NaT

(***************************************************************************)
(* Raw numeric fields: a number, or a text float() raises on.              *)
(***************************************************************************)
Num(n) == [num |-> TRUE, v |-> n]

NotANumber == [num |-> FALSE, v |-> 0]

\* float(x) raises ValueError exactly when this is false.
float_ok(x) == x.num

float(x) == x.v

(***************************************************************************)
(* DataFrame.sort_values('datetime') on a list of observation records.     *)
(***************************************************************************)
datetime_before(a, b) ==
    \/ a.day < b.day
    \/ a.day = b.day /\ a.hour < b.hour

RECURSIVE insert_sorted(_, _)
insert_sorted(sorted, rec) ==
    IF sorted = <<>> THEN <<rec>>
    ELSE IF datetime_before(rec.datetime, Head(sorted).datetime)
         THEN <<rec>> \o sorted
         ELSE <<Head(sorted)>> \o insert_sorted(Tail(sorted), rec)

RECURSIVE sort_values(_)
sort_values(records) ==
    IF records = <<>> THEN <<>>
    ELSE insert_sorted(sort_values(SubSeq(records, 1, Len(records) - 1)),
                       records[Len(records)])

\* [f(x) for x in seq if ok(x)]
MapSelect(seq, ok(_), f(_)) ==
    LET kept == SelectSeq(seq, ok)
    IN [i \in 1..Len(kept) |-> f(kept[i])]

(***************************************************************************)
(* load_consumption_data                                                   *)
(***************************************************************************)
\* The entries the loop appends an observation for.
consumption_kept(entry) ==
    /\ ~isna(parse_timestamp(entry.date, entry.time))
    /\ float_ok(entry.rating)
    /\ float_ok(entry.cost)

consumption_record(entry) ==
    [datetime |-> parse_timestamp(entry.date, entry.time),
     date |-> entry.date,
     time |-> entry.time,
     type |-> entry.substance,
     rating |-> float(entry.rating),
     cost |-> float(entry.cost)]

\* A loop that stops at the first entry it cannot convert.
consumption_rows_until_failure(entries_data) ==
    LET failed == {i \in DOMAIN entries_data : ~consumption_kept(entries_data[i])}
        stop == IF failed = {} THEN Len(entries_data) + 1
                ELSE CHOOSE i \in failed : \A j \in failed : i <= j
        kept == SubSeq(entries_data, 1, stop - 1)
    IN [i \in 1..Len(kept) |-> consumption_record(kept[i])]

\* The list consumption_data the loop builds.
consumption_rows(entries_data) ==
    MapSelect(entries_data, consumption_kept, consumption_record)

\* A loader that adds the new observations to the series it already holds.
load_consumption_data_appending(data, entries_data) ==
    IF entries_data = <<>> THEN data
    ELSE [data EXCEPT !.consumption_data =
             sort_values(@ \o consumption_rows(entries_data))]

\* self.data after load_consumption_data(entries_data).
load_consumption_data(data, entries_data) ==
    IF entries_data = <<>> THEN data
    ELSE IF consumption_rows(entries_data) = <<>> THEN data
    ELSE [data EXCEPT !.consumption_data = sort_values(consumption_rows(entries_data))]

(***************************************************************************)
(* load_health_data                                                        *)
(***************************************************************************)
entry_type_of(entry) == lower(entry.Type)

is_sleep_type(entry_type) == any_word(entry_type, SleepWords)

is_heart_type(entry_type) == any_word(entry_type, HeartWords)

sleep_type_of(entry_type) ==
    IF any_word(entry_type, DeepWords) THEN "deep"
    ELSE IF any_word(entry_type, LightWords) THEN "light"
    ELSE IF any_word(entry_type, RemWords) THEN "rem"
    ELSE IF any_word(entry_type, WakeWords) THEN "wake"
    ELSE "total"

\* The samples the loop appends to sleep_data: a parsed timestamp, a sleep
\* keyword, and a value float() accepts.
sleep_kept(entry) ==
    /\ ~isna(parse_timestamp(entry.date, entry.time))
    /\ is_sleep_type(entry_type_of(entry))
    /\ float_ok(entry.value)

sleep_record(entry) ==
    [datetime |-> parse_timestamp(entry.date, entry.time),
     date |-> entry.date,
     time |-> entry.time,
     sleep_type |-> sleep_type_of(entry_type_of(entry)),
     value_minutes |-> float(entry.value)]

\* The samples the loop appends to heart_rate_data (the elif branch).
heart_rate_kept(entry) ==
    /\ ~isna(parse_timestamp(entry.date, entry.time))
    /\ ~is_sleep_type(entry_type_of(entry))
    /\ is_heart_type(entry_type_of(entry))
    /\ float_ok(entry.value)

heart_rate_record(entry) ==
    [datetime |-> parse_timestamp(entry.date, entry.time),
     date |-> entry.date,
     time |-> entry.time,
     heart_rate |-> float(entry.value)]

sleep_rows(health) == MapSelect(health, sleep_kept, sleep_record)

heart_rate_rows(health) == MapSelect(health, heart_rate_kept, heart_rate_record)

\* self.data after load_health_data(health).
load_health_data(data, health) ==
    IF health = <<>> THEN data
    ELSE [data EXCEPT
            !.sleep_data = IF sleep_rows(health) = <<>> THEN @
                           ELSE sort_values(sleep_rows(health)),
            !.heart_rate_data = IF heart_rate_rows(health) = <<>> THEN @
                                ELSE sort_values(heart_rate_rows(health))]

(***************************************************************************)
(* Exact arithmetic: rationals <<num, den>> with den > 0, reduced.         *)
(***************************************************************************)
Abs(n) == IF n < 0 THEN -n ELSE n

RECURSIVE Gcd(_, _)
Gcd(a, b) == IF b = 0 THEN a ELSE Gcd(b, a % b)

Lcm(a, b) == (a \div Gcd(a, b)) * b

Rat(n, d) == LET g == Gcd(Abs(n), d) IN <<n \div g, d \div g>>

Zero == <<0, 1>>

RatLess(a, b) == a[1] * b[2] < b[1] * a[2]

RatScale(a, k) == Rat(a[1] * k, a[2])

RECURSIVE Sum(_)
Sum(seq) == IF seq = <<>> THEN 0 ELSE Head(seq) + Sum(Tail(seq))

Max(S) == CHOOSE x \in S : \A y \in S : y <= x

Min(S) == CHOOSE x \in S : \A y \in S : x <= y

Range(seq) == {seq[i] : i \in DOMAIN seq}

\* The elements of a set of integers, ascending.
RECURSIVE Ascending(_)
Ascending(S) == IF S = {} THEN <<>> ELSE <<Min(S)>> \o Ascending(S \ {Min(S)})

\* The largest r with r * r <= n, found by bisection between lo and hi, where
\* lo * lo <= n < hi * hi.
RECURSIVE ISqrtFrom(_, _, _)
ISqrtFrom(n, lo, hi) ==
    IF hi - lo <= 1 THEN lo
    ELSE LET mid == (lo + hi) \div 2
         IN IF mid <= n \div mid THEN ISqrtFrom(n, mid, hi) ELSE ISqrtFrom(n, lo, mid)

ISqrt(n) == ISqrtFrom(n, 0, n + 1)

\* Digits after the point kept of a standard deviation: 1/StdFix is the unit.
StdFix == 10

\* Series.mean() of a non-empty list of integers.
mean(values) == Rat(Sum(values), Len(values))

\* Series.std() (ddof = 1) of a list of integers, in fixed point; NaN for one
\* value, which the fillna(0) of combine_data turns into 0.
std(values) ==
    LET n == Len(values)
        S == Sum(values)
        Q == Sum([i \in 1..n |-> values[i] * values[i]])
    IN IF n < 2 THEN Zero
       ELSE Rat(ISqrt((StdFix * StdFix * (n * Q - S * S)) \div (n * (n - 1))), StdFix)

(***************************************************************************)
(* combine_data: the list combined_records, one dict per calendar date.    *)
(***************************************************************************)
\* The values of a record's absent keys are placeholders: `keys` tells which
\* keys the dict holds.
BlankRecord(d) ==
    [date |-> d, keys |-> {},
     total_sleep_min |-> 0, deep_sleep_min |-> 0, light_sleep_min |-> 0,
     rem_sleep_min |-> 0, wake_min |-> 0, has_sleep_data |-> FALSE,
     avg_heart_rate |-> Zero, max_heart_rate |-> 0, min_heart_rate |-> 0,
     heart_rate_std |-> Zero, heart_rate_entries |-> 0,
     has_heart_rate_data |-> FALSE,
     substances_today |-> {}, consumption_count |-> 0,
     avg_consumption_rating |-> Zero, total_daily_cost |-> 0,
     has_consumption_data |-> FALSE,
     evening_substances |-> {}, evening_consumption_count |-> 0]

SleepKeys == {"date", "date_str", "total_sleep_min", "deep_sleep_min",
              "light_sleep_min", "rem_sleep_min", "wake_min", "has_sleep_data"}

HeartRateKeys == {"avg_heart_rate", "max_heart_rate", "min_heart_rate",
                  "heart_rate_std", "heart_rate_entries", "has_heart_rate_data"}

ConsumptionKeys == {"substances_today", "consumption_count",
                    "avg_consumption_rating", "total_daily_cost",
                    "has_consumption_data"}

EveningKeys == {"evening_substances", "evening_consumption_count"}

\* datetime.dt.date of every row of a series, and one date's group.
dates_of(series) == {series[i].datetime.day : i \in DOMAIN series}

\* One date's group cut down to its first row.
first_of_group(series, d) ==
    SubSeq(SelectSeq(series, LAMBDA r : r.datetime.day = d), 1, 1)

group_of(series, d) == SelectSeq(series, LAMBDA r : r.datetime.day = d)

\* group[group['sleep_type'] == t]['value_minutes'].sum()
stage_sum(group, t) ==
    Sum([i \in 1..Len(group) |->
            IF group[i].sleep_type = t THEN group[i].value_minutes ELSE 0])

sleep_day_record(group, d) ==
    [BlankRecord(d) EXCEPT
        !.keys = SleepKeys,
        !.total_sleep_min = stage_sum(group, "total"),
        !.deep_sleep_min = stage_sum(group, "deep"),
        !.light_sleep_min = stage_sum(group, "light"),
        !.rem_sleep_min = stage_sum(group, "rem"),
        !.wake_min = stage_sum(group, "wake"),
        !.has_sleep_data = TRUE]

\* The heart-rate keys both branches of the heart-rate loop set.
with_heart_rate(record, group) ==
    LET hr == [i \in 1..Len(group) |-> group[i].heart_rate]
    IN [record EXCEPT
          !.keys = @ \cup HeartRateKeys,
          !.avg_heart_rate = mean(hr),
          !.max_heart_rate = Max(Range(hr)),
          !.min_heart_rate = Min(Range(hr)),
          !.heart_rate_std = std(hr),
          !.heart_rate_entries = Len(group),
          !.has_heart_rate_data = TRUE]

\* The dict the heart-rate loop appends for a date without a record.
heart_rate_day_record(group, d) ==
    [with_heart_rate(BlankRecord(d), group) EXCEPT
        !.keys = @ \cup {"date", "date_str", "has_sleep_data"},
        !.has_sleep_data = FALSE]

\* The consumption keys both branches of the consumption loop set.
with_consumption(record, group) ==
    [record EXCEPT
        !.keys = @ \cup ConsumptionKeys,
        !.substances_today = {group[i].type : i \in DOMAIN group},
        !.consumption_count = Len(group),
        !.avg_consumption_rating = mean([i \in 1..Len(group) |-> group[i].rating]),
        !.total_daily_cost = Sum([i \in 1..Len(group) |-> group[i].cost]),
        !.has_consumption_data = TRUE]

\* group[(hour >= 18) & (hour <= 24)]
evening_consumption(group) ==
    SelectSeq(group, LAMBDA r : r.datetime.hour >= 18 /\ r.datetime.hour <= 24)

\* The existing_record branch: the evening keys are set when the subset is not empty.
merge_consumption(record, group) ==
    LET evening == evening_consumption(group)
        merged == with_consumption(record, group)
    IN IF evening = <<>> THEN merged
       ELSE [merged EXCEPT
               !.keys = @ \cup EveningKeys,
               !.evening_substances = {evening[i].type : i \in DOMAIN evening},
               !.evening_consumption_count = Len(evening)]

\* The dict the consumption loop appends for a date without a record.
consumption_day_record(group, d) ==
    [with_consumption(BlankRecord(d), group) EXCEPT
        !.keys = @ \cup {"date", "date_str", "has_sleep_data", "has_heart_rate_data"},
        !.has_sleep_data = FALSE,
        !.has_heart_rate_data = FALSE]

\* A lookup that never finds the day's record.
existing_record_never_found(records, d) == 0

\* next((r for r in combined_records if r['date_str'] == str(date)), None): its
\* index, 0 for None.
existing_record(records, d) ==
    IF \E i \in DOMAIN records : records[i].date = d
    THEN Min({i \in DOMAIN records : records[i].date = d})
    ELSE 0

sleep_records(sleep_data) ==
    LET days == Ascending(dates_of(sleep_data))
    IN [i \in 1..Len(days) |-> sleep_day_record(group_of(sleep_data, days[i]), days[i])]

\* The heart-rate loop over the dates `days` (ascending): find or create.
RECURSIVE heart_rate_loop(_, _, _)
heart_rate_loop(records, heart_rate_data, days) ==
    IF days = <<>> THEN records
    ELSE LET d == Head(days)
             group == group_of(heart_rate_data, d)
             i == existing_record(records, d)
         IN heart_rate_loop(IF i # 0
                            THEN [records EXCEPT ![i] = with_heart_rate(records[i], group)]
                            ELSE Append(records, heart_rate_day_record(group, d)),
                            heart_rate_data, Tail(days))

heart_rate_records(records, heart_rate_data) ==
    heart_rate_loop(records, heart_rate_data, Ascending(dates_of(heart_rate_data)))

\* The consumption loop over the dates `days` (ascending): find or create.
RECURSIVE consumption_loop(_, _, _)
consumption_loop(records, consumption_data, days) ==
    IF days = <<>> THEN records
    ELSE LET d == Head(days)
             group == group_of(consumption_data, d)
             i == existing_record(records, d)
         IN consumption_loop(IF i # 0
                             THEN [records EXCEPT ![i] = merge_consumption(records[i], group)]
                             ELSE Append(records, consumption_day_record(group, d)),
                             consumption_data, Tail(days))

consumption_records(records, consumption_data) ==
    consumption_loop(records, consumption_data, Ascending(dates_of(consumption_data)))

combined_records(data) ==
    consumption_records(
        heart_rate_records(sleep_records(data.sleep_data), data.heart_rate_data),
        data.consumption_data)

\* df.sort_values('date') on the list of day records.
RECURSIVE insert_by_date(_, _)
insert_by_date(sorted, rec) ==
    IF sorted = <<>> THEN <<rec>>
    ELSE IF rec.date < Head(sorted).date
         THEN <<rec>> \o sorted
         ELSE <<Head(sorted)>> \o insert_by_date(Tail(sorted), rec)

RECURSIVE sort_by_date(_)
sort_by_date(records) ==
    IF records = <<>> THEN <<>>
    ELSE insert_by_date(sort_by_date(SubSeq(records, 1, Len(records) - 1)),
                        records[Len(records)])

\* pd.DataFrame(combined_records): the columns are the keys of all the dicts.
\* The numeric columns are filled with 0 where a dict lacks the key; a cell of
\* another column is NaN where the row's `keys` lacks it.
DataFrame(records) ==
    [rows |-> records,
     columns |-> UNION {records[i].keys : i \in DOMAIN records}]

\* self.data['combined_data'] = None
NoFrame == [rows |-> <<>>, columns |-> {}]

\* self.data after combine_data(): the table is replaced only when
\* combined_records is not empty.
combine_data(data) ==
    LET records == combined_records(data)
    IN IF records = <<>> THEN data
       ELSE [data EXCEPT !.combined_data = DataFrame(sort_by_date(records))]

(***************************************************************************)
(* perform_correlation_analysis                                            *)
(***************************************************************************)
RatAdd(a, b) == Rat(a[1] * b[2] + b[1] * a[2], a[2] * b[2])

RatSub(a, b) == Rat(a[1] * b[2] - b[1] * a[2], a[2] * b[2])

RatNeg(a) == <<-a[1], a[2]>>

\* a / b for b > 0.
RatDiv(a, b) == Rat(a[1] * b[2], a[2] * b[1])

RECURSIVE RatSum(_)
RatSum(seq) == IF seq = <<>> THEN Zero ELSE RatAdd(Head(seq), RatSum(Tail(seq)))

\* Series.mean() of a non-empty list of rationals.
rat_mean(values) == LET s == RatSum(values) IN Rat(s[1], s[2] * Len(values))

\* a/b < c/d for a, c >= 0 and b, d > 0, by continued fractions: no product
\* is formed, so no intermediate value exceeds the operands.
RECURSIVE FracLess(_, _, _, _)
FracLess(a, b, c, d) ==
    IF a \div b # c \div d THEN a \div b < c \div d
    ELSE IF c % d = 0 THEN FALSE
    ELSE IF a % b = 0 THEN TRUE
    ELSE FracLess(d, c % d, b, a % b)

\* The columns perform_correlation_analysis considers, in its order.
CandidateCols == <<"total_sleep_min", "deep_sleep_min", "light_sleep_min",
                   "rem_sleep_min", "sleep_efficiency", "avg_heart_rate",
                   "hrv_proxy", "avg_consumption_rating", "total_daily_cost">>

\* The characters of a column name, as the f-string of the key writes them.
column_text(col) ==
    CASE col = "total_sleep_min" ->
            <<"t","o","t","a","l","_","s","l","e","e","p","_","m","i","n">>
      [] col = "deep_sleep_min" ->
            <<"d","e","e","p","_","s","l","e","e","p","_","m","i","n">>
      [] col = "light_sleep_min" ->
            <<"l","i","g","h","t","_","s","l","e","e","p","_","m","i","n">>
      [] col = "rem_sleep_min" ->
            <<"r","e","m","_","s","l","e","e","p","_","m","i","n">>
      [] col = "sleep_efficiency" ->
            <<"s","l","e","e","p","_","e","f","f","i","c","i","e","n","c","y">>
      [] col = "avg_heart_rate" ->
            <<"a","v","g","_","h","e","a","r","t","_","r","a","t","e">>
      [] col = "hrv_proxy" ->
            <<"h","r","v","_","p","r","o","x","y">>
      [] col = "avg_consumption_rating" ->
            <<"a","v","g","_","c","o","n","s","u","m","p","t","i","o","n","_","r","a","t","i","n","g">>
      [] col = "total_daily_cost" ->
            <<"t","o","t","a","l","_","d","a","i","l","y","_","c","o","s","t">>

\* f"{col1}_{col2}", the key of an entry of `correlations`.
correlation_key(col1, col2) == column_text(col1) \o <<"_">> \o column_text(col2)

\* The position of the first sep in text, and 0 when there is none.
find(text, sep) ==
    IF \E i \in DOMAIN text : text[i] = sep
    THEN CHOOSE i \in DOMAIN text :
            text[i] = sep /\ \A j \in 1..(i - 1) : text[j] # sep
    ELSE 0

\* key.split('_', 1): the text before the first underscore and the text after
\* it, and the whole key alone when it has no underscore.
split_key(key) ==
    LET i == find(key, "_")
    IN IF i = 0 THEN <<key>>
       ELSE <<SubSeq(key, 1, i - 1), SubSeq(key, i + 1, Len(key))>>

\* The candidate columns derived from the sleep fields of a row.
SleepCols == {"total_sleep_min", "deep_sleep_min", "light_sleep_min",
              "rem_sleep_min", "sleep_efficiency"}

\* `col in df.columns` after sleep_efficiency and hrv_proxy have been added.
in_columns(df, col) ==
    CASE col = "sleep_efficiency" -> {"total_sleep_min", "wake_min"} \subseteq df.columns
      [] col = "hrv_proxy" -> "heart_rate_std" \in df.columns
      [] OTHER -> col \in df.columns

\* np.where(total_bed_time > 0, total_sleep_min / total_bed_time * 100, 0)
sleep_efficiency(row) ==
    IF row.total_sleep_min + row.wake_min > 0
    THEN Rat(100 * row.total_sleep_min, row.total_sleep_min + row.wake_min)
    ELSE Zero

\* df[col] of one row, after fillna(0): a rational.
cell(row, col) ==
    CASE col = "total_sleep_min" -> <<row.total_sleep_min, 1>>
      [] col = "deep_sleep_min" -> <<row.deep_sleep_min, 1>>
      [] col = "light_sleep_min" -> <<row.light_sleep_min, 1>>
      [] col = "rem_sleep_min" -> <<row.rem_sleep_min, 1>>
      [] col = "sleep_efficiency" -> sleep_efficiency(row)
      [] col = "avg_heart_rate" -> row.avg_heart_rate
      [] col = "hrv_proxy" -> row.heart_rate_std
      [] col = "avg_consumption_rating" -> row.avg_consumption_rating
      [] col = "total_daily_cost" -> <<row.total_daily_cost, 1>>

column(df, col) == [i \in 1..Len(df.rows) |-> cell(df.rows[i], col)]

\* A rule that takes every column of the table.
eligible_if_present(df, col) == in_columns(df, col)

\* col in df.columns and df[col].notna().any() and len(df[col].unique()) > 1
eligible(df, col) ==
    /\ in_columns(df, col)
    /\ Cardinality(Range(column(df, col))) > 1

numeric_cols(df) == SelectSeq(CandidateCols, LAMBDA col : eligible(df, col))

\* The columns combine_data fills with 0 where a day's record lacks the key.
FilledCols == {"total_sleep_min", "deep_sleep_min", "light_sleep_min",
               "rem_sleep_min", "wake_min", "avg_heart_rate", "max_heart_rate",
               "min_heart_rate", "heart_rate_std", "avg_consumption_rating",
               "total_daily_cost"}

\* The keys of a day's record a candidate column is read or derived from.
keys_of(col) ==
    CASE col = "sleep_efficiency" -> {"total_sleep_min", "wake_min"}
      [] col = "hrv_proxy" -> {"heart_rate_std"}
      [] OTHER -> {col}

\* A table whose missing cells were never filled.
cell_isna_without_fill(row, col) == \E k \in keys_of(col) : k \notin row.keys

\* A cell is NaN when the record lacks a key that fillna(0) did not fill.
cell_isna(row, col) == \E k \in keys_of(col) : k \notin row.keys /\ k \notin FilledCols

\* df[[col1, col2]].dropna(): the rows whose two cells are not NaN.
valid_data(df, col1, col2) ==
    [df EXCEPT !.rows = SelectSeq(df.rows,
        LAMBDA row : ~cell_isna(row, col1) /\ ~cell_isna(row, col2))]

RECURSIVE GcdAll(_)
GcdAll(seq) == IF seq = <<>> THEN 0 ELSE Gcd(Abs(Head(seq)), GcdAll(Tail(seq)))

RECURSIVE LcmAll(_)
LcmAll(seq) == IF seq = <<>> THEN 1 ELSE Lcm(Head(seq), LcmAll(Tail(seq)))

\* A column of rationals as integers: an affine image a * x + b (a > 0) of it,
\* under which Pearson's coefficient and the 2-sigma rule do not change.
IntColumn(values) ==
    LET L == LcmAll([i \in 1..Len(values) |-> values[i][2]])
        ints == [i \in 1..Len(values) |-> values[i][1] * (L \div values[i][2])]
        low == Min(Range(ints))
        shifted == [i \in 1..Len(values) |-> ints[i] - low]
        g == GcdAll(shifted)
    IN IF g = 0 THEN shifted ELSE [i \in 1..Len(values) |-> shifted[i] \div g]

\* Series.corr: r = cov / sqrt(vx * vy), held as the three integers
\* cov = n*Sxy - Sx*Sy, vx = n*Sxx - Sx*Sx, vy = n*Syy - Sy*Sy.
pearson(xs, ys) ==
    LET x == IntColumn(xs)
        y == IntColumn(ys)
        n == Len(x)
        Sx == Sum(x)
        Sy == Sum(y)
    IN [cov |-> n * Sum([i \in 1..n |-> x[i] * y[i]]) - Sx * Sy,
        vx |-> n * Sum([i \in 1..n |-> x[i] * x[i]]) - Sx * Sx,
        vy |-> n * Sum([i \in 1..n |-> y[i] * y[i]]) - Sy * Sy]

\* pd.isna(corr): a column without variance gives 0/0.
corr_isna(corr) == corr.vx = 0 \/ corr.vy = 0

\* abs(corr) > num/den, for a corr that is not NaN:
\* cov^2 / (vx * vy) > num^2 / den^2.
abs_corr_above(corr, num, den) ==
    /\ corr.cov # 0
    /\ FracLess(num * corr.vy, den * Abs(corr.cov), den * Abs(corr.cov), num * corr.vx)

\* The pairs of the fixed phrase table of _interpret_correlation.
PhrasePairs == { <<"total_sleep_min", "avg_heart_rate">>,
                 <<"deep_sleep_min", "avg_heart_rate">>,
                 <<"avg_consumption_rating", "avg_heart_rate">>,
                 <<"total_daily_cost", "total_sleep_min">> }

phrase(pair, corr) ==
    CASE pair = <<"total_sleep_min", "avg_heart_rate">> ->
            IF corr.cov < 0 THEN "Mehr Schlaf -> Niedrigere Herzfrequenz"
            ELSE "Mehr Schlaf -> Hoehere Herzfrequenz"
      [] pair = <<"deep_sleep_min", "avg_heart_rate">> ->
            IF corr.cov < 0 THEN "Mehr Tiefschlaf -> Niedrigere Herzfrequenz"
            ELSE "Mehr Tiefschlaf -> Hoehere Herzfrequenz"
      [] pair = <<"avg_consumption_rating", "avg_heart_rate">> ->
            IF corr.cov > 0 THEN "Hoehere Bewertung -> Hoehere Herzfrequenz"
            ELSE "Hoehere Bewertung -> Niedrigere Herzfrequenz"
      [] pair = <<"total_daily_cost", "total_sleep_min">> ->
            IF corr.cov < 0 THEN "Hoehere Kosten -> Weniger Schlaf"
            ELSE "Hoehere Kosten -> Mehr Schlaf"

\* The strength and the direction of the fallback phrase.
strength_of(corr) ==
    IF abs_corr_above(corr, 7, 10) THEN "stark"
    ELSE IF abs_corr_above(corr, 4, 10) THEN "maessig"
    ELSE "schwach"

direction_of(corr) == IF corr.cov > 0 THEN "positive" ELSE "negative"

interpret_correlation(col1, col2, corr) ==
    IF <<col1, col2>> \in PhrasePairs THEN <<phrase(<<col1, col2>>, corr)>>
    ELSE IF <<col2, col1>> \in PhrasePairs THEN <<phrase(<<col2, col1>>, corr)>>
    ELSE <<strength_of(corr), direction_of(corr), "Korrelation">>

\* The minimum of paired rows and the threshold of a reported correlation.
MinPairs == 3

\* A report of every defined coefficient, whatever its strength.
pair_reported_any_strength(df, col1, col2) ==
    LET valid == valid_data(df, col1, col2)
    IN /\ Len(valid.rows) >= MinPairs
       /\ ~corr_isna(pearson(column(valid, col1), column(valid, col2)))

\* if len(valid_data) >= 3: ... if not pd.isna(corr) and abs(corr) > 0.3
pair_reported(df, col1, col2) ==
    LET valid == valid_data(df, col1, col2)
    IN /\ Len(valid.rows) >= MinPairs
       /\ ~corr_isna(pearson(column(valid, col1), column(valid, col2)))
       /\ abs_corr_above(pearson(column(valid, col1), column(valid, col2)), 3, 10)

correlation_entry(df, col1, col2) ==
    LET valid == valid_data(df, col1, col2)
        corr == pearson(column(valid, col1), column(valid, col2))
    IN [col1 |-> col1, col2 |-> col2,
        correlation |-> corr,
        n |-> Len(valid.rows),
        interpretation |-> interpret_correlation(col1, col2, corr)]

\* for i, col1 in enumerate(numeric_cols): for col2 in numeric_cols[i + 1:]
column_pairs(cols) ==
    LET idx == {p \in (1..Len(cols)) \X (1..Len(cols)) : p[1] < p[2]}
        rank(p) == p[1] * (Len(cols) + 1) + p[2]
        order == Ascending({rank(p) : p \in idx})
    IN [k \in 1..Len(order) |->
          <<cols[order[k] \div (Len(cols) + 1)], cols[order[k] % (Len(cols) + 1)]>>]

\* The dict `correlations`, in insertion order.
correlations_of(df) ==
    LET pairs == SelectSeq(column_pairs(numeric_cols(df)),
                           LAMBDA p : pair_reported(df, p[1], p[2]))
    IN [k \in 1..Len(pairs) |-> correlation_entry(df, pairs[k][1], pairs[k][2])]

(***************************************************************************)
(* Substance effects                                                       *)
(***************************************************************************)
\* list(set(substances_list)): the substances of all the days' lists.
unique_substances(df) ==
    UNION {df.rows[i].substances_today : i \in DOMAIN df.rows}

\* df[f'used_{substance}']: the day's list holds the substance.
used(row, substance) ==
    "substances_today" \in row.keys /\ substance \in row.substances_today

EffectMetrics == {"avg_heart_rate", "total_sleep_min", "sleep_efficiency"}

\* df[df[used] == flag][metric].mean()
partition_mean(df, substance, metric, flag) ==
    LET part == SelectSeq(df.rows, LAMBDA row : used(row, substance) = flag)
    IN rat_mean([i \in 1..Len(part) |-> cell(part[i], metric)])

\* A difference taken relative to the mean of the days with the substance.
difference_percent_of_with(with_substance, without_substance) ==
    RatScale(RatDiv(RatSub(with_substance, without_substance), with_substance), 100)

\* ((with_substance - without_substance) / without_substance) * 100
difference_percent(with_substance, without_substance) ==
    RatScale(RatDiv(RatSub(with_substance, without_substance), without_substance), 100)

\* df[used].any() and (~df[used]).any()
both_partitions(df, substance) ==
    /\ \E i \in DOMAIN df.rows : used(df.rows[i], substance)
    /\ \E i \in DOMAIN df.rows : ~used(df.rows[i], substance)

\* A rule that also asks for a difference of more than ClearEffect percent.
effect_kept_above_threshold(df, substance, metric) ==
    /\ both_partitions(df, substance)
    /\ in_columns(df, metric)
    /\ partition_mean(df, substance, metric, TRUE)[1] > 0
    /\ partition_mean(df, substance, metric, FALSE)[1] > 0
    /\ LET diff == difference_percent(partition_mean(df, substance, metric, TRUE),
                                      partition_mean(df, substance, metric, FALSE))
       IN RatLess(<<10, 1>>, <<Abs(diff[1]), diff[2]>>)

\* if metric in df.columns: ... if with_substance > 0 and without_substance > 0
effect_kept(df, substance, metric) ==
    /\ both_partitions(df, substance)
    /\ in_columns(df, metric)
    /\ partition_mean(df, substance, metric, TRUE)[1] > 0
    /\ partition_mean(df, substance, metric, FALSE)[1] > 0

KnownSubstances == {"Alkohol", "Cannabis", "MDMA"}

\* The threshold, in percent, of the fallback phrase of a substance effect.
ClearEffect == 10

interpret_substance_effect(substance, metric, diff) ==
    IF substance \in KnownSubstances THEN <<"bekannt", substance, metric>>
    ELSE IF RatLess(<<ClearEffect, 1>>, <<Abs(diff[1]), diff[2]>>)
         THEN <<substance, IF diff[1] > 0 THEN "erhoeht" ELSE "verringert", metric>>
         ELSE <<substance, "zeigt keinen klaren Effekt auf", metric>>

substance_effect(df, substance, metric) ==
    LET with_substance == partition_mean(df, substance, metric, TRUE)
        without_substance == partition_mean(df, substance, metric, FALSE)
        diff == difference_percent(with_substance, without_substance)
    IN [substance |-> substance, metric |-> metric,
        with_substance |-> with_substance,
        without_substance |-> without_substance,
        difference_percent |-> diff,
        interpretation |-> interpret_substance_effect(substance, metric, diff)]

\* The dict substance_correlations; the order of its keys follows the
\* iteration order of a Python set and is left open here.
substance_effects_of(df) ==
    IF "substances_today" \notin df.columns THEN {}
    ELSE {substance_effect(df, p[1], p[2]) :
            p \in {q \in unique_substances(df) \X EffectMetrics :
                     effect_kept(df, q[1], q[2])}}

\* df[flag].sum(): NaN cells are skipped.
days_with(df, flag) ==
    Cardinality({i \in DOMAIN df.rows :
        CASE flag = "has_sleep_data" -> df.rows[i].has_sleep_data
          [] flag = "has_heart_rate_data" -> df.rows[i].has_heart_rate_data
          [] flag = "has_consumption_data" -> df.rows[i].has_consumption_data})

\* self.correlation_results = {} of __init__
EmptyResults ==
    [status |-> "empty", total_days |-> 0, numeric_columns |-> <<>>,
     correlations |-> <<>>, substance_effects |-> {},
     data_summary |-> [days_with_sleep_data |-> 0, days_with_heart_rate_data |-> 0,
                       days_with_consumption_data |-> 0, unique_substances |-> 0]]

\* An empty structured result in place of the no_data result.
SuccessWithoutData == [EmptyResults EXCEPT !.status = "success"]

\* return {"status": "no_data", ...}
NoDataResults == [EmptyResults EXCEPT !.status = "no_data"]

\* What perform_correlation_analysis() returns.
perform_correlation_analysis(data) ==
    LET df == data.combined_data
    IN IF df = NoFrame THEN NoDataResults
       ELSE [status |-> "success",
             total_days |-> Len(df.rows),
             numeric_columns |-> numeric_cols(df),
             correlations |-> correlations_of(df),
             substance_effects |-> substance_effects_of(df),
             data_summary |->
                [days_with_sleep_data |->
                    IF "has_sleep_data" \in df.columns
                    THEN days_with(df, "has_sleep_data") ELSE 0,
                 days_with_heart_rate_data |->
                    IF "has_heart_rate_data" \in df.columns
                    THEN days_with(df, "has_heart_rate_data") ELSE 0,
                 days_with_consumption_data |->
                    IF "has_consumption_data" \in df.columns
                    THEN days_with(df, "has_consumption_data") ELSE 0,
                 unique_substances |->
                    IF "substances_today" \in df.columns
                    THEN Cardinality(unique_substances(df)) ELSE 0]]

\* The analyzer after perform_correlation_analysis(): self.correlation_results
\* is assigned only past the no_data return.
after_correlation_analysis(a) ==
    IF a.data.combined_data = NoFrame THEN a
    ELSE [a EXCEPT !.correlation_results = perform_correlation_analysis(a.data)]

(***************************************************************************)
(* perform_machine_learning_analysis: the anomaly rule                     *)
(***************************************************************************)
\* The number of standard deviations of the rule.
AnomalySigmas == 2

\* A rule of one standard deviation: (n x_i - S)^2 (n - 1) > n V.
deviates_one_sigma(x, i) ==
    LET n == Len(x)
        S == Sum(x)
        V == n * Sum([k \in 1..n |-> x[k] * x[k]]) - S * S
        A == Abs(n * x[i] - S)
    IN A # 0 /\ FracLess(n * V, A, A * (n - 1), 1)

\* abs(row['avg_heart_rate'] - mean_hr) > 2 * std_hr, on the integer image x of
\* the column: with S = sum(x), V = n * sum(x^2) - S^2 and std^2 = V / (n (n-1)),
\* (n x_i - S)^2 (n - 1) > 4 n V.
deviates(x, i) ==
    LET n == Len(x)
        S == Sum(x)
        V == n * Sum([k \in 1..n |-> x[k] * x[k]]) - S * S
        A == Abs(n * x[i] - S)
    IN A # 0 /\ FracLess(AnomalySigmas * AnomalySigmas * n * V, A, A * (n - 1), 1)

\* std_hr > 0: NaN for a single row, 0 for a constant column.
std_positive(x) ==
    /\ Len(x) >= 2
    /\ Cardinality(Range(x)) > 1

\* A rule that flags the first day of every table.
anomalies_of_first_day(df) == IF df.rows = <<>> THEN {} ELSE {1}

\* A rule that flags every day of the table.
anomalies_of_every_day(df) == DOMAIN df.rows

\* The list `anomalies`: the indexes of the flagged rows.
anomalies_of(df) ==
    IF "avg_heart_rate" \notin df.columns THEN {}
    ELSE LET x == IntColumn(column(df, "avg_heart_rate"))
         IN IF std_positive(x) THEN {i \in DOMAIN x : deviates(x, i)} ELSE {}

\* Timestamp.day_name(): 2024-01-01, day 1, is a Monday.
DayNames == <<"Monday", "Tuesday", "Wednesday", "Thursday", "Friday",
              "Saturday", "Sunday">>

day_name(d) == DayNames[((d - 1) % 7) + 1]

\* The keys of df.groupby('weekday'), which groupby sorts.
WeekdayOrder == <<"Friday", "Monday", "Saturday", "Sunday", "Thursday",
                  "Tuesday", "Wednesday">>

\* df.groupby('weekday')['consumption_count'].mean() of one weekday: the mean
\* of the cells that are not NaN (consumption_count is not filled).
weekday_consumption(df, weekday) ==
    LET part == SelectSeq(df.rows, LAMBDA row :
                    day_name(row.date) = weekday /\ "consumption_count" \in row.keys)
    IN Rat(Sum([i \in 1..Len(part) |-> part[i].consumption_count]), Len(part))

\* weekday_consumption.idxmax(): the first weekday, in the order of the
\* groups, whose mean is the largest; weekdays whose mean is NaN are skipped.
max_day(df) ==
    LET counted == SelectSeq(WeekdayOrder, LAMBDA w :
                      \E i \in DOMAIN df.rows :
                          day_name(df.rows[i].date) = w
                              /\ "consumption_count" \in df.rows[i].keys)
        best == CHOOSE k \in DOMAIN counted :
                    /\ \A j \in DOMAIN counted :
                          ~RatLess(weekday_consumption(df, counted[k]),
                                   weekday_consumption(df, counted[j]))
                    /\ \A j \in 1..(k - 1) :
                          RatLess(weekday_consumption(df, counted[j]),
                                  weekday_consumption(df, counted[k]))
    IN counted[best]

\* hr_above < hr_below: the mean heart rate of the days with more sleep than
\* the mean and that of the other days, when there are days of both kinds.
more_sleep_lower_heart_rate(df) ==
    LET avg_sleep == rat_mean(column(df, "total_sleep_min"))
        sleep_above_avg == SelectSeq(df.rows, LAMBDA row :
                              RatLess(avg_sleep, <<row.total_sleep_min, 1>>))
        sleep_below_avg == SelectSeq(df.rows, LAMBDA row :
                              ~RatLess(avg_sleep, <<row.total_sleep_min, 1>>))
    IN /\ sleep_above_avg # <<>>
       /\ sleep_below_avg # <<>>
       /\ RatLess(rat_mean([i \in 1..Len(sleep_above_avg) |->
                               sleep_above_avg[i].avg_heart_rate]),
                  rat_mean([i \in 1..Len(sleep_below_avg) |->
                               sleep_below_avg[i].avg_heart_rate]))

NoPatterns == {<<"Keine klaren Muster identifiziert">>}

\* _identify_simple_patterns(df): the list `patterns`, as a set.
identify_simple_patterns(df) ==
    LET patterns ==
            (IF "consumption_count" \in df.columns
             THEN {<<"Hoechster Konsum typischerweise am", max_day(df)>>} ELSE {})
            \cup
            (IF /\ "total_sleep_min" \in df.columns
                /\ "avg_heart_rate" \in df.columns
                /\ more_sleep_lower_heart_rate(df)
             THEN {<<"Tage mit mehr Schlaf haben tendenziell niedrigere Herzfrequenz">>}
             ELSE {})
    IN IF patterns = {} THEN NoPatterns ELSE patterns

\* df['consumption_count'].mean(): NaN cells are skipped.
avg_consumption(df) ==
    LET part == SelectSeq(df.rows, LAMBDA row : "consumption_count" \in row.keys)
    IN Rat(Sum([i \in 1..Len(part) |-> part[i].consumption_count]), Len(part))

NoRecommendations == {<<"Keine spezifischen Empfehlungen">>}

\* Rules whose thresholds include the threshold value itself.
generate_recommendations_inclusive(df) ==
    LET recommendations ==
            (IF "total_sleep_min" \notin df.columns THEN {}
             ELSE IF ~RatLess(<<360, 1>>, rat_mean(column(df, "total_sleep_min")))
                  THEN {<<"Schlafdauer erhoehen">>}
                  ELSE IF ~RatLess(rat_mean(column(df, "total_sleep_min")), <<540, 1>>)
                       THEN {<<"Schlafdauer moeglicherweise zu hoch">>}
                       ELSE {})
            \cup
            (IF /\ "avg_heart_rate" \in df.columns
                /\ ~RatLess(rat_mean(column(df, "avg_heart_rate")), <<80, 1>>)
             THEN {<<"Ruheherzfrequenz senken">>} ELSE {})
            \cup
            (IF /\ "consumption_count" \in df.columns
                /\ ~RatLess(avg_consumption(df), <<1, 1>>)
             THEN {<<"Konsumhaeufigkeit reduzieren">>} ELSE {})
    IN IF recommendations = {} THEN NoRecommendations ELSE recommendations

\* _generate_simple_recommendations(df): the list `recommendations`, as a set.
generate_simple_recommendations(df) ==
    LET recommendations ==
            (IF "total_sleep_min" \notin df.columns THEN {}
             ELSE IF RatLess(rat_mean(column(df, "total_sleep_min")), <<360, 1>>)
                  THEN {<<"Schlafdauer erhoehen">>}
                  ELSE IF RatLess(<<540, 1>>, rat_mean(column(df, "total_sleep_min")))
                       THEN {<<"Schlafdauer moeglicherweise zu hoch">>}
                       ELSE {})
            \cup
            (IF /\ "avg_heart_rate" \in df.columns
                /\ RatLess(<<80, 1>>, rat_mean(column(df, "avg_heart_rate")))
             THEN {<<"Ruheherzfrequenz senken">>} ELSE {})
            \cup
            (IF /\ "consumption_count" \in df.columns
                /\ RatLess(<<1, 1>>, avg_consumption(df))
             THEN {<<"Konsumhaeufigkeit reduzieren">>} ELSE {})
    IN IF recommendations = {} THEN NoRecommendations ELSE recommendations

NoMLResults ==
    [status |-> "none", total_days_analyzed |-> 0, anomaly_days |-> 0,
     anomaly_percentage |-> Zero, flagged |-> {},
     patterns |-> {}, recommendations |-> {}]

\* What perform_machine_learning_analysis() returns; `flagged` are the dates of
\* the rows in `anomalies`.
perform_machine_learning_analysis(data) ==
    LET df == data.combined_data
    IN IF df = NoFrame THEN [NoMLResults EXCEPT !.status = "no_data"]
       ELSE LET anomalies == anomalies_of(df)
            IN
            [status |-> "success",
             total_days_analyzed |-> Len(df.rows),
             anomaly_days |-> Cardinality(anomalies),
             anomaly_percentage |-> Rat(100 * Cardinality(anomalies), Len(df.rows)),
             flagged |-> {df.rows[i].date : i \in anomalies},
             patterns |-> identify_simple_patterns(df),
             recommendations |-> generate_simple_recommendations(df)]

(***************************************************************************)
(* generate_comprehensive_report                                           *)
(***************************************************************************)
NoDataMessage == <<"Keine ausreichenden Daten fuer eine Analyse verfuegbar.">>

\* _identify_risk_factors: the warnings, by their subject.  The table never has
\* a sleep_efficiency column: the correlation analysis adds it to a copy.
identify_risk_factors(df) ==
    (IF /\ "avg_heart_rate" \in df.columns
        /\ "total_sleep_min" \in df.columns
        /\ Cardinality({i \in DOMAIN df.rows :
              /\ RatLess(<<85, 1>>, df.rows[i].avg_heart_rate)
              /\ df.rows[i].total_sleep_min < 300}) > 3
     THEN {"high_hr_low_sleep"} ELSE {})
    \cup
    (IF /\ "substances_today" \in df.columns
        /\ \E i \in DOMAIN df.rows : used(df.rows[i], "Alkohol")
        /\ "sleep_efficiency" \in df.columns
        /\ RatLess(partition_mean(df, "Alkohol", "sleep_efficiency", TRUE), <<75, 1>>)
     THEN {"alcohol_sleep_efficiency"} ELSE {})

NoInsights ==
    {<<"Basierend auf den aktuellen Daten liegen keine auffaelligen Muster vor.">>}

\* _generate_personal_insights(): the list `insights`, as a set.
generate_personal_insights(df) ==
    LET insights ==
            (IF "total_sleep_min" \notin df.columns THEN {}
             ELSE IF RatLess(rat_mean(column(df, "total_sleep_min")), <<360, 1>>)
                  THEN {<<"Schlafdauer gering">>}
                  ELSE IF RatLess(<<540, 1>>, rat_mean(column(df, "total_sleep_min")))
                       THEN {<<"Schlafdauer ueberdurchschnittlich hoch">>}
                       ELSE {})
            \cup
            (IF /\ "avg_heart_rate" \in df.columns
                /\ RatLess(<<80, 1>>, rat_mean(column(df, "avg_heart_rate")))
             THEN {<<"Ruheherzfrequenz erhoeht">>} ELSE {})
            \cup
            (IF /\ "has_consumption_data" \in df.columns
                /\ 2 * days_with(df, "has_consumption_data") > Len(df.rows)
             THEN {<<"Konsumtage mehr als 50%">>} ELSE {})
    IN IF insights = {} THEN NoInsights ELSE insights

\* What the direct calls of the two methods return; on a table that is None
\* `'total_sleep_min' in df.columns` raises.
NoHeuristics == [raised |-> FALSE, insights |-> {}, warnings |-> {}]

personal_heuristics(data) ==
    IF data.combined_data = NoFrame
    THEN [NoHeuristics EXCEPT !.raised = TRUE]
    ELSE [raised |-> FALSE,
          insights |-> generate_personal_insights(data.combined_data),
          warnings |-> identify_risk_factors(data.combined_data)]

\* The sections of the formatted report, in the order the code appends them.
ReportSections(a) ==
    <<"KI-THERAPEUT ANALYSEBERICHT", "DATENUEBERSICHT">>
    \o (IF a.correlation_results.status = "success"
        THEN <<"KORRELATIONSANALYSE">>
             \o (IF a.correlation_results.substance_effects # {}
                 THEN <<"SUBSTANZ-EFFEKTE">> ELSE <<>>)
        ELSE <<>>)
    \o (IF perform_machine_learning_analysis(a.data).status = "success"
        THEN <<"MASCHINELLES LERNEN">> ELSE <<>>)
    \o <<"PERSOENLICHE EINSCHAETZUNG">>
    \o (IF identify_risk_factors(a.data.combined_data) # {}
        THEN <<"WARNUNGEN">> ELSE <<>>)
    \o <<"NAECHSTE SCHRITTE", "Ende des Berichts">>

\* `not self.data['combined_data']`: bool() of a DataFrame raises ValueError
\* ("The truth value of a DataFrame is ambiguous"); `not None` is True.
truth_value_raises(combined_data) == combined_data # NoFrame

NoReport == [raised |-> FALSE, text |-> <<>>]

\* What generate_comprehensive_report() does: raise, or return a text.
generate_comprehensive_report(a) ==
    IF a.data.combined_data = NoFrame THEN [raised |-> FALSE, text |-> NoDataMessage]
    ELSE IF truth_value_raises(a.data.combined_data)
         THEN [raised |-> TRUE, text |-> <<>>]
         ELSE [raised |-> FALSE, text |-> ReportSections(a)]

(***************************************************************************)
(* State.  entries and health_data are st.session_state.entries and        *)
(* .health_data; analyzer is st.session_state.ki_therapeut_analyzer with   *)
(* its self.data and self.correlation_results; the two *_results are the   *)
(* session's stored results (None is NoneText and NoneResults).            *)
(* ml_results and report_result hold what the last direct call of          *)
(* perform_machine_learning_analysis and generate_comprehensive_report     *)
(* returned, correlation_return what the last direct call of               *)
(* perform_correlation_analysis returned, heuristics what the direct calls *)
(* of _generate_personal_insights and _identify_risk_factors returned,     *)
(* interpret_call the arguments and the result of a direct call of         *)
(* _interpret_correlation; pc is the position of the caller.               *)
(***************************************************************************)
\* KITherapeutAnalyzer.__init__; a series that is None is the empty list.
NewAnalyzer ==
    [data |-> [sleep_data |-> <<>>, heart_rate_data |-> <<>>,
               consumption_data |-> <<>>, combined_data |-> NoFrame],
     correlation_results |-> EmptyResults]

NoneText == <<>>

NoneResults == [EmptyResults EXCEPT !.status = "None"]

Sample(type, value, date, time) ==
    [Type |-> type, value |-> value, date |-> date, time |-> time]

Entry(substance, date, time, rating, cost) ==
    [substance |-> substance, date |-> date, time |-> time,
     rating |-> rating, cost |-> cost]

\* The strictly increasing sequences over 1..n of length at most k.
Ordered(n, k) ==
    {ix \in UNION {[1..m -> 1..n] : m \in 0..k} :
        \A i \in 1..Len(ix) : \A j \in (i + 1)..Len(ix) : ix[i] < ix[j]}

(***************************************************************************)
(* The Streamlit session: the handlers of the entry form, the health data  *)
(* page and the analysis page.                                             *)
(***************************************************************************)
SessionSamples ==
    {Sample(Schlaf, Num(420), IsoDates[d], MidnightTime) : d \in 1..SessionDays}
    \cup {Sample(Herzfrequenz, Num(70), IsoDates[d], MidnightTime) : d \in 1..SessionDays}

SessionEntries ==
    {Entry("Alkohol", IsoDates[d], EveningTime, Num(4), Num(0)) : d \in 1..SessionDays}

\* No call of _interpret_correlation yet.
NoCall == [col1 |-> "", col2 |-> "", corr |-> [cov |-> 0, vx |-> 1, vy |-> 1],
           result |-> <<>>, key |-> <<>>, shown |-> <<>>]

Fresh ==
    /\ analyzer = NewAnalyzer
    /\ ki_analysis_results = NoneText
    /\ correlation_analysis_results = NoneResults
    /\ ml_results = NoMLResults
    /\ report_result = NoReport
    /\ correlation_return = NoneResults
    /\ heuristics = NoHeuristics
    /\ interpret_call = NoCall

Init ==
    /\ entries = <<>>
    /\ health_data = <<>>
    /\ Fresh
    /\ pc = "session"

Remove(seq, i) == SubSeq(seq, 1, i - 1) \o SubSeq(seq, i + 1, Len(seq))

\* The entry form: st.session_state.entries.append(new_entry)
AddEntry ==
    /\ pc = "session"
    /\ Len(entries) < MaxEntries
    /\ \E e \in SessionEntries : entries' = Append(entries, e)
    /\ UNCHANGED <<health_data, analyzer, ki_analysis_results,
                   correlation_analysis_results, ml_results, report_result, pc,
                   correlation_return, heuristics, interpret_call>>

\* The confirmed deletion of an entry.
DeleteEntry ==
    /\ pc = "session"
    /\ \E i \in DOMAIN entries : entries' = Remove(entries, i)
    /\ UNCHANGED <<health_data, analyzer, ki_analysis_results,
                   correlation_analysis_results, ml_results, report_result, pc,
                   correlation_return, heuristics, interpret_call>>

\* The manual health form: st.session_state.health_data.append(new_health_entry)
AddHealthEntry ==
    /\ pc = "session"
    /\ Len(health_data) < MaxHealth
    /\ \E h \in SessionSamples : health_data' = Append(health_data, h)
    /\ UNCHANGED <<entries, analyzer, ki_analysis_results,
                   correlation_analysis_results, ml_results, report_result, pc,
                   correlation_return, heuristics, interpret_call>>

\* The confirmed deletion of a health entry.
DeleteHealthEntry ==
    /\ pc = "session"
    /\ \E i \in DOMAIN health_data : health_data' = Remove(health_data, i)
    /\ UNCHANGED <<entries, analyzer, ki_analysis_results,
                   correlation_analysis_results, ml_results, report_result, pc,
                   correlation_return, heuristics, interpret_call>>

\* perform_ki_therapeut_analysis() up to the report: the loaders (each called
\* when its input is not empty), combine_data, and, when it returned a table,
\* perform_correlation_analysis.  `combined` is what combine_data returned.
analysed(a, health, entries_data) ==
    LET loaded == load_consumption_data(load_health_data(a.data, health), entries_data)
        records == combined_records(loaded)
    IN IF records = <<>>
       THEN [analyzer |-> [a EXCEPT !.data = loaded], combined |-> NoFrame]
       ELSE LET df == DataFrame(sort_by_date(records))
                data == [loaded EXCEPT !.combined_data = df]
            IN [analyzer |-> [data |-> data,
                              correlation_results |-> perform_correlation_analysis(data)],
                combined |-> df]

\* A run that stores the correlation results as soon as they are computed.
PerformAnalysisStoringEarly ==
    /\ pc = "session"
    /\ IF health_data = <<>> /\ entries = <<>>
       THEN UNCHANGED <<analyzer, ki_analysis_results, correlation_analysis_results>>
       ELSE \E run \in {analysed(analyzer, health_data, entries)} :
               /\ analyzer' = run.analyzer
               /\ IF run.combined = NoFrame
                  THEN UNCHANGED <<ki_analysis_results, correlation_analysis_results>>
                  ELSE /\ correlation_analysis_results' = run.analyzer.correlation_results
                       /\ \E report \in {generate_comprehensive_report(run.analyzer)} :
                             IF report.raised
                             THEN UNCHANGED ki_analysis_results
                             ELSE ki_analysis_results' = report.text
    /\ UNCHANGED <<entries, health_data, ml_results, report_result, pc,
                   correlation_return, heuristics, interpret_call>>

\* perform_ki_therapeut_analysis(): the button "KI-Therapeut Analyse starten".
\* Without inputs it returns at once.  An exception of any step is caught: the
\* session's results are assigned only when the report was generated.
PerformAnalysis ==
    /\ pc = "session"
    /\ IF health_data = <<>> /\ entries = <<>>
       THEN UNCHANGED <<analyzer, ki_analysis_results, correlation_analysis_results>>
       ELSE \E run \in {analysed(analyzer, health_data, entries)} :
               /\ analyzer' = run.analyzer
               /\ IF run.combined = NoFrame
                  THEN UNCHANGED <<ki_analysis_results, correlation_analysis_results>>
                  ELSE \E report \in {generate_comprehensive_report(run.analyzer)} :
                          IF report.raised
                          THEN UNCHANGED <<ki_analysis_results,
                                           correlation_analysis_results>>
                          ELSE /\ ki_analysis_results' = report.text
                               /\ correlation_analysis_results' =
                                     run.analyzer.correlation_results
    /\ UNCHANGED <<entries, health_data, ml_results, report_result, pc,
                   correlation_return, heuristics, interpret_call>>

\* The button "Daten aktualisieren".
Refresh ==
    /\ pc = "session"
    /\ analyzer' = NewAnalyzer
    /\ ki_analysis_results' = NoneText
    /\ correlation_analysis_results' = NoneResults
    /\ UNCHANGED <<entries, health_data, ml_results, report_result, pc,
                   correlation_return, heuristics, interpret_call>>

Next ==
    \/ AddEntry
    \/ DeleteEntry
    \/ AddHealthEntry
    \/ DeleteHealthEntry
    \/ PerformAnalysis
    \/ Refresh

Spec == Init /\ [][Next]_vars

(***************************************************************************)
(* The methods of a new analyzer, called one after the other on given      *)
(* inputs, as perform_ki_therapeut_analysis calls them; the anomaly rule   *)
(* and the report are called directly.                                     *)
(***************************************************************************)
CallLoadHealthData ==
    /\ pc = "start"
    /\ analyzer' = [analyzer EXCEPT !.data = load_health_data(@, health_data)]
    /\ pc' = "health_loaded"
    /\ UNCHANGED <<entries, health_data, ki_analysis_results,
                   correlation_analysis_results, ml_results, report_result,
                   correlation_return, heuristics, interpret_call>>

CallLoadConsumptionData ==
    /\ pc = "health_loaded"
    /\ analyzer' = [analyzer EXCEPT !.data = load_consumption_data(@, entries)]
    /\ pc' = "loaded"
    /\ UNCHANGED <<entries, health_data, ki_analysis_results,
                   correlation_analysis_results, ml_results, report_result,
                   correlation_return, heuristics, interpret_call>>

CallCombineData ==
    /\ pc = "loaded"
    /\ analyzer' = [analyzer EXCEPT !.data = combine_data(@)]
    /\ pc' = "combined"
    /\ UNCHANGED <<entries, health_data, ki_analysis_results,
                   correlation_analysis_results, ml_results, report_result,
                   correlation_return, heuristics, interpret_call>>

CallCorrelationAnalysis ==
    /\ pc = "combined"
    /\ correlation_return' = perform_correlation_analysis(analyzer.data)
    /\ analyzer' = IF analyzer.data.combined_data = NoFrame THEN analyzer
                   ELSE [analyzer EXCEPT !.correlation_results = correlation_return']
    /\ pc' = "correlated"
    /\ UNCHANGED <<entries, health_data, ki_analysis_results,
                   correlation_analysis_results, ml_results, report_result,
                   heuristics, interpret_call>>

CallMachineLearningAnalysis ==
    /\ pc = "correlated"
    /\ ml_results' = perform_machine_learning_analysis(analyzer.data)
    /\ pc' = "ml_done"
    /\ UNCHANGED <<entries, health_data, analyzer, ki_analysis_results,
                   correlation_analysis_results, report_result,
                   correlation_return, heuristics, interpret_call>>

\* _generate_personal_insights() and _identify_risk_factors(), called directly.
CallPersonalHeuristics ==
    /\ pc = "ml_done"
    /\ heuristics' = personal_heuristics(analyzer.data)
    /\ pc' = "insights_done"
    /\ UNCHANGED <<entries, health_data, analyzer, ki_analysis_results,
                   correlation_analysis_results, ml_results, report_result,
                   correlation_return, interpret_call>>

CallGenerateReport ==
    /\ pc = "insights_done"
    /\ report_result' = generate_comprehensive_report(analyzer)
    /\ pc' = "done"
    /\ UNCHANGED <<entries, health_data, analyzer, ki_analysis_results,
                   correlation_analysis_results, ml_results,
                   correlation_return, heuristics, interpret_call>>

NextMethods ==
    \/ CallLoadHealthData
    \/ CallLoadConsumptionData
    \/ CallCombineData
    \/ CallCorrelationAnalysis
    \/ CallMachineLearningAnalysis
    \/ CallPersonalHeuristics
    \/ CallGenerateReport

\* Inputs of the correlation runs: a sleep and two heart-rate samples and one
\* rated entry a day on MaxDays days, listed in the order of their dates.
CorrSampleList ==
    [k \in 1..(3 * MaxDays) |->
        LET d == (k - 1) \div 3 + 1
            c == (k - 1) % 3
        IN CASE c = 0 -> Sample(Schlaf, Num(420), IsoDates[d], MidnightTime)
             [] c = 1 -> Sample(Herzfrequenz, Num(60), IsoDates[d], MidnightTime)
             [] c = 2 -> Sample(Herzfrequenz, Num(80), IsoDates[d], MidnightTime)]

CorrEntryList ==
    [d \in 1..MaxDays |->
        Entry("Alkohol", IsoDates[d], EveningTime,
              Num(IF d % 2 = 1 THEN 2 ELSE 5), Num(0))]

InitCorr ==
    /\ \E ix \in Ordered(Len(CorrSampleList), MaxSamples) :
          health_data = [i \in 1..Len(ix) |-> CorrSampleList[ix[i]]]
    /\ \E ix \in Ordered(Len(CorrEntryList), MaxEvents) :
          entries = [i \in 1..Len(ix) |-> CorrEntryList[ix[i]]]
    /\ Fresh
    /\ pc = "start"

SpecCorr == InitCorr /\ [][NextMethods]_vars

\* Inputs of the label runs: samples of every label of the importer, and one
\* entry at most, with date and time texts that parse and that do not.
LabelSamples ==
    {Sample(l, Num(70), d, MidnightTime) :
        l \in ImporterLabels, d \in {IsoDates[1], BadDate}}

LabelEntries ==
    {Entry("Alkohol", d, t, Num(3), Num(0)) :
        d \in {IsoDates[1], SlashDate, BadDate},
        t \in {MidnightTime, EveningTime, BadTime}}

InitLabels ==
    /\ health_data \in UNION {[1..m -> LabelSamples] : m \in 0..MaxLabelled}
    /\ entries \in UNION {[1..m -> LabelEntries] : m \in 0..1}
    /\ Fresh
    /\ pc = "start"

SpecLabels == InitLabels /\ [][NextMethods]_vars

\* Heart-rate-only inputs: one sample a day on up to ScenarioDays days.
ScenarioRates == {60, 61, 62, 63, 150}

InitScenario ==
    /\ \E n \in 1..ScenarioDays : \E rates \in [1..n -> ScenarioRates] :
          health_data = [i \in 1..n |->
                            Sample(Herzfrequenz, Num(rates[i]), IsoDates[i], MidnightTime)]
    /\ entries = <<>>
    /\ Fresh
    /\ pc = "start"

SpecScenario == InitScenario /\ [][NextMethods]_vars

\* Arguments of the direct calls of _interpret_correlation: every pair of
\* candidate columns, and the coefficients k/20 for k in -20..20 (cov = k and
\* vx = vy = 20 give r = k/20).
CorrGrid == {[cov |-> k, vx |-> 20, vy |-> 20] : k \in -20..20}

InitInterpret ==
    /\ entries = <<>>
    /\ health_data = <<>>
    /\ analyzer = NewAnalyzer
    /\ ki_analysis_results = NoneText
    /\ correlation_analysis_results = NoneResults
    /\ ml_results = NoMLResults
    /\ report_result = NoReport
    /\ correlation_return = NoneResults
    /\ heuristics = NoHeuristics
    /\ \E c1 \in Range(CandidateCols), c2 \in Range(CandidateCols), r \in CorrGrid :
          interpret_call = [NoCall EXCEPT !.col1 = c1, !.col2 = c2, !.corr = r]
    /\ pc = "start"

\* self._interpret_correlation(col1, col2, corr)
CallInterpretCorrelation ==
    /\ pc = "start"
    /\ interpret_call' =
          [interpret_call EXCEPT
              !.result = interpret_correlation(interpret_call.col1,
                                               interpret_call.col2,
                                               interpret_call.corr)]
    /\ pc' = "interpreted"
    /\ UNCHANGED <<entries, health_data, analyzer, ki_analysis_results,
                   correlation_analysis_results, ml_results, report_result,
                   correlation_return, heuristics>>

SpecInterpret == InitInterpret /\ [][CallInterpretCorrelation]_vars

\* The pairs the correlation loop reports and their coefficients: col1 before
\* col2 in the candidate order, and |r| > 0.3 on the grid of k/20.
InitKeys ==
    /\ entries = <<>>
    /\ health_data = <<>>
    /\ analyzer = NewAnalyzer
    /\ ki_analysis_results = NoneText
    /\ correlation_analysis_results = NoneResults
    /\ ml_results = NoMLResults
    /\ report_result = NoReport
    /\ correlation_return = NoneResults
    /\ heuristics = NoHeuristics
    /\ \E i \in DOMAIN CandidateCols, j \in DOMAIN CandidateCols, r \in CorrGrid :
          /\ i < j
          /\ 100 * r.cov * r.cov > 9 * r.vx * r.vy
          /\ interpret_call = [NoCall EXCEPT !.col1 = CandidateCols[i],
                                              !.col2 = CandidateCols[j],
                                              !.corr = r]
    /\ pc = "start"

\* correlations[f"{col1}_{col2}"] = {..., "interpretation": ...}
StoreCorrelation ==
    /\ pc = "start"
    /\ interpret_call' =
          [interpret_call EXCEPT
              !.key = correlation_key(interpret_call.col1, interpret_call.col2),
              !.result = interpret_correlation(interpret_call.col1,
                                               interpret_call.col2,
                                               interpret_call.corr)]
    /\ pc' = "stored"
    /\ UNCHANGED <<entries, health_data, analyzer, ki_analysis_results,
                   correlation_analysis_results, ml_results, report_result,
                   correlation_return, heuristics>>

\* col1, col2 = key.split('_', 1), and the line written with the two names.
ShowCorrelation ==
    /\ pc = "stored"
    /\ interpret_call' = [interpret_call EXCEPT !.shown = split_key(interpret_call.key)]
    /\ pc' = "shown"
    /\ UNCHANGED <<entries, health_data, analyzer, ki_analysis_results,
                   correlation_analysis_results, ml_results, report_result,
                   correlation_return, heuristics>>

SpecKeys == InitKeys /\ [][StoreCorrelation \/ ShowCorrelation]_vars

\* Inputs of the substance-effect runs: on each of EffectDays days at most one
\* heart-rate sample (a negative, a usual and a ten percent higher rate), at
\* most one sleep sample and at most one entry.
EffectDays == 2

EffectRates == {-60, 60, 66}

RECURSIVE Flatten(_)
Flatten(seqs) == IF seqs = <<>> THEN <<>> ELSE Head(seqs) \o Flatten(Tail(seqs))

EffectSamples(rates, slept) ==
    Flatten([d \in 1..EffectDays |->
        (IF rates[d] = 0 THEN <<>>
         ELSE <<Sample(Herzfrequenz, Num(rates[d]), IsoDates[d], MidnightTime)>>)
        \o (IF slept[d]
            THEN <<Sample(Schlaf, Num(420), IsoDates[d], MidnightTime)>>
            ELSE <<>>)])

EffectEntries(consumed) ==
    Flatten([d \in 1..EffectDays |->
        IF consumed[d]
        THEN <<Entry("Alkohol", IsoDates[d], EveningTime, Num(3), Num(0))>>
        ELSE <<>>])

InitEffects ==
    /\ \E rates \in [1..EffectDays -> EffectRates \cup {0}],
          slept \in [1..EffectDays -> BOOLEAN] :
          health_data = EffectSamples(rates, slept)
    /\ \E consumed \in [1..EffectDays -> BOOLEAN] : entries = EffectEntries(consumed)
    /\ Fresh
    /\ pc = "start"

SpecEffects == InitEffects /\ [][NextMethods]_vars

\* Consumption-only inputs: events of one substance, one rating and one cost on
\* the consecutive dates first..last, one or two events a date.
ConsumptionDates == 10

ConstantEntries(first, last, substance, rating, cost, twice) ==
    Flatten([k \in 1..(last - first + 1) |->
        <<Entry(substance, IsoDates[first + k - 1], EveningTime, Num(rating), Num(cost))>>
        \o (IF twice
            THEN <<Entry(substance, IsoDates[first + k - 1], MidnightTime,
                         Num(rating), Num(cost))>>
            ELSE <<>>)])

InitConstant ==
    /\ health_data = <<>>
    /\ \E first \in 1..ConsumptionDates, last \in 1..ConsumptionDates :
       \E substance \in {"Cannabis", "Alkohol"}, rating \in {3, 5}, cost \in {0, 10},
          twice \in BOOLEAN :
          /\ first <= last
          /\ entries = ConstantEntries(first, last, substance, rating, cost, twice)
    /\ Fresh
    /\ pc = "start"

SpecConstant == InitConstant /\ [][NextMethods]_vars

\* Inputs of the loader runs: a batch of health samples or a batch of entries
\* of at most MaxRecords records, each with a date, a time and numbers that
\* parse or do not, in every order.  The numbers that parse are not 0, the
\* placeholder value of a text that does not.
MaxRecords == 3

RecordSamples ==
    {Sample(l, v, d, t) :
        l \in {Schlaf, Herzfrequenz}, v \in {Num(70), NotANumber},
        d \in {IsoDates[1], BadDate}, t \in {MidnightTime, BadTime}}

RecordEntries ==
    {Entry("Alkohol", d, t, r, c) :
        d \in {IsoDates[1], BadDate}, t \in {EveningTime, BadTime},
        r \in {Num(3), NotANumber}, c \in {Num(10), NotANumber}}

InitRecords ==
    /\ \/ /\ health_data \in UNION {[1..m -> RecordSamples] : m \in 1..MaxRecords}
          /\ entries = <<>>
       \/ /\ health_data = <<>>
          /\ entries \in UNION {[1..m -> RecordEntries] : m \in 1..MaxRecords}
    /\ Fresh
    /\ pc = "start"

NextLoaders ==
    \/ CallLoadHealthData
    \/ CallLoadConsumptionData

SpecRecords == InitRecords /\ [][NextLoaders]_vars

\* Inputs of the deep-sleep runs: at most MaxDeep samples whose labels hold
\* "deep" in several letter cases, or are other labels of the importer.
MaxDeep == 2

DeepSleepMinutes ==
    <<"D","e","e","p"," ","S","l","e","e","p"," ","M","i","n","u","t","e","s">>

DEEP_REM == <<"D","E","E","P"," ","R","E","M">>

deep_wake == <<"d","e","e","p","_","w","a","k","e">>

DeepLabels == {DeepSleepMinutes, DEEP_REM, deep_wake}

DeepSamples ==
    {Sample(l, Num(v), IsoDates[d], MidnightTime) :
        l \in DeepLabels \cup {Schlaf, REM_Schlaf, Herzfrequenz},
        v \in {90, 30}, d \in 1..2}

InitDeep ==
    /\ health_data \in UNION {[1..m -> DeepSamples] : m \in 1..MaxDeep}
    /\ entries = <<>>
    /\ Fresh
    /\ pc = "start"

SpecDeep == InitDeep /\ [][NextMethods]_vars

\* Inputs of the threshold runs: at most RuleDays days; the first day has one
\* profile and the later days share another.  A profile is the minutes of one
\* sleep sample (0: none), the rate of one heart-rate sample (0: none) and the
\* number of entries of the day.
RuleDays == 2

RuleProfiles ==
    [sleep : {0, 300, 360, 420, 540, 660}, rate : {0, 70, 80, 90}, count : 0..3]

RuleSamples(profile) ==
    Flatten([d \in DOMAIN profile |->
        (IF profile[d].sleep = 0 THEN <<>>
         ELSE <<Sample(Schlaf, Num(profile[d].sleep), IsoDates[d], MidnightTime)>>)
        \o (IF profile[d].rate = 0 THEN <<>>
            ELSE <<Sample(Herzfrequenz, Num(profile[d].rate), IsoDates[d], MidnightTime)>>)])

RuleEntries(profile) ==
    Flatten([d \in DOMAIN profile |->
        [k \in 1..profile[d].count |->
            Entry("Alkohol", IsoDates[d], EveningTime, Num(3), Num(0))]])

InitRules ==
    /\ \E n \in 1..RuleDays, first \in RuleProfiles, later \in RuleProfiles :
          LET profile == [d \in 1..n |-> IF d = 1 THEN first ELSE later]
          IN /\ health_data = RuleSamples(profile)
             /\ entries = RuleEntries(profile)
    /\ Fresh
    /\ pc = "start"

NextRules ==
    \/ CallLoadHealthData
    \/ CallLoadConsumptionData
    \/ CallCombineData
    \/ CallCorrelationAnalysis
    \/ CallMachineLearningAnalysis
    \/ CallPersonalHeuristics

SpecRules == InitRules /\ [][NextRules]_vars

\* Inputs of the repeated runs: at most TwiceDays days; the first day has one
\* profile and the later days share another.  The analysis is started any
\* number of times; between the runs entries are deleted and the page is
\* refreshed.
TwiceDays == 2

TwiceProfiles == [sleep : {0, 420}, rate : {0, 60, 66}, count : 0..1]

InitTwice ==
    /\ \E n \in 1..TwiceDays, first \in TwiceProfiles, later \in TwiceProfiles :
          LET profile == [d \in 1..n |-> IF d = 1 THEN first ELSE later]
          IN /\ health_data = RuleSamples(profile)
             /\ entries = RuleEntries(profile)
    /\ Fresh
    /\ pc = "session"

NextTwice ==
    \/ PerformAnalysis
    \/ DeleteEntry
    \/ Refresh

SpecTwice == InitTwice /\ [][NextTwice]_vars

\* Inputs of the runs with a day without heart rate: one heart-rate sample a
\* day on at most GateDays days, but for one day at most, which has a sleep
\* sample instead.
GateDays == 6

GateRates == {60, 90}

InitGate ==
    /\ \E n \in 2..GateDays : \E rates \in [1..n -> GateRates], asleep \in 0..n :
          health_data =
             [d \in 1..n |->
                 IF d = asleep
                 THEN Sample(Schlaf, Num(420), IsoDates[d], MidnightTime)
                 ELSE Sample(Herzfrequenz, Num(rates[d]), IsoDates[d], MidnightTime)]
    /\ entries = <<>>
    /\ Fresh
    /\ pc = "start"

SpecGate == InitGate /\ [][NextRules]_vars

\* Inputs of the aggregation runs: at most MaxTotals samples, in any order and
\* with repetitions, of every sleep stage and of the heart rate on the first
\* date and of the sleep total and the heart rate on the second, and up to two
\* entries on the first date and one on the second.
MaxTotals == 3

Awake == <<"A","w","a","k","e">>

TotalSamples ==
    {Sample(Schlaf, Num(420), IsoDates[d], MidnightTime) : d \in 1..2}
        \cup {Sample(Herzfrequenz, Num(70), IsoDates[d], MidnightTime) : d \in 1..2}
        \cup {Sample(Tiefschlaf, Num(90), IsoDates[1], MidnightTime),
              Sample(Leichtschlaf, Num(200), IsoDates[1], MidnightTime),
              Sample(REM_Schlaf, Num(60), IsoDates[1], MidnightTime),
              Sample(Awake, Num(15), IsoDates[1], MidnightTime)}

TotalEntries(first, second) ==
    [i \in 1..(first + second) |->
        Entry("Alkohol", IsoDates[IF i <= first THEN 1 ELSE 2],
              IF i = 1 THEN EveningTime ELSE MidnightTime, Num(3), Num(10))]

InitTotals ==
    /\ health_data \in UNION {[1..m -> TotalSamples] : m \in 0..MaxTotals}
    /\ \E first \in 0..2, second \in 0..1 : entries = TotalEntries(first, second)
    /\ Fresh
    /\ pc = "start"

NextTotals ==
    \/ CallLoadHealthData
    \/ CallLoadConsumptionData
    \/ CallCombineData

SpecTotals == InitTotals /\ [][NextTotals]_vars

(***************************************************************************)
(* Properties.                                                             *)
(***************************************************************************)
Table == analyzer.data.combined_data

\* The position of the caller is past combine_data, past both loaders.
Combined == pc \in {"combined", "correlated", "ml_done", "insights_done", "done"}

Loaded == pc = "loaded" \/ Combined

\* The calendar dates that appear in at least one of the three series.
SeriesDates ==
    dates_of(analyzer.data.sleep_data) \cup dates_of(analyzer.data.heart_rate_data)
        \cup dates_of(analyzer.data.consumption_data)

\* C1: after combine_data the daily table has exactly one row for each calendar
\* date that appears in at least one of the three series, no row for any other
\* date, and its rows are in ascending date order.
C1_OneRowPerDate ==
    Combined =>
        /\ Len(Table.rows) = Cardinality(SeriesDates)
        /\ {Table.rows[i].date : i \in DOMAIN Table.rows} = SeriesDates
        /\ \A i \in 1..(Len(Table.rows) - 1) : Table.rows[i].date < Table.rows[i + 1].date

\* A table in which one date has sleep and heart-rate data, and in which a date
\* that only the consumption series holds lies before a date of the sleep series
\* (so the list of records was not in date order before the sort).
C1_Witness ==
    /\ Combined
    /\ dates_of(analyzer.data.sleep_data) \cap dates_of(analyzer.data.heart_rate_data) # {}
    /\ \E d \in dates_of(analyzer.data.consumption_data) :
          /\ d \notin dates_of(analyzer.data.sleep_data)
          /\ d \notin dates_of(analyzer.data.heart_rate_data)
          /\ \E e \in dates_of(analyzer.data.sleep_data) : d < e

\* What an analysis of the current inputs gives on a new analyzer.
FreshRun == analysed(NewAnalyzer, health_data, entries).analyzer

\* C2: the result of an analysis invocation depends only on the entries and the
\* health samples supplied to it: whatever was analysed before, the daily table
\* and the correlation results are those of the current inputs alone.
C2_DependsOnInputsOnly ==
    [][(PerformAnalysis /\ ~(health_data = <<>> /\ entries = <<>>)) =>
          /\ analyzer'.data.combined_data = FreshRun.data.combined_data
          /\ analyzer'.correlation_results = FreshRun.correlation_results]_vars

Correlated == pc \in {"correlated", "ml_done", "insights_done", "done"}

Correlations == analyzer.correlation_results.correlations

\* The rows with heart-rate observations and no sleep observations.
HeartRateOnlyDays ==
    {i \in DOMAIN Table.rows :
        Table.rows[i].has_heart_rate_data /\ ~Table.rows[i].has_sleep_data}

\* C3: a day with heart-rate observations and no sleep observations does not
\* contribute to the sample count n of a reported correlation that involves a
\* sleep metric: n is at most the number of the other rows.
C3_SleepCountExcludesHeartRateOnlyDays ==
    Correlated =>
        \A k \in DOMAIN Correlations :
            (Correlations[k].col1 \in SleepCols \/ Correlations[k].col2 \in SleepCols)
                => Correlations[k].n <= Len(Table.rows) - Cardinality(HeartRateOnlyDays)

\* C4: every reported correlation has a sample size n of at least 3 and a
\* defined coefficient r = cov / sqrt(vx * vy) with -1 <= r <= 1 and |r| > 0.3;
\* a pair with fewer than 3 paired rows or an undefined coefficient is absent.
C4_ReportedCorrelationsAreStrongEnough ==
    Correlated =>
        /\ \A k \in DOMAIN Correlations :
              LET r == Correlations[k].correlation
              IN /\ Correlations[k].n >= 3
                 /\ r.vx > 0 /\ r.vy > 0
                 /\ r.cov * r.cov <= r.vx * r.vy
                 /\ 100 * r.cov * r.cov > 9 * r.vx * r.vy
        /\ \A k \in DOMAIN Correlations :
              LET valid == valid_data(Table, Correlations[k].col1, Correlations[k].col2)
              IN /\ Len(valid.rows) >= 3
                 /\ ~corr_isna(pearson(column(valid, Correlations[k].col1),
                                       column(valid, Correlations[k].col2)))
        /\ Len(Table.rows) < 3 => Correlations = <<>>

\* A table with a reported correlation next to a pair of varying columns on at
\* least 3 rows whose coefficient is too weak to be reported.
C4_Witness ==
    /\ Correlated
    /\ Correlations # <<>>
    /\ \E p \in Range(column_pairs(numeric_cols(Table))) :
          /\ pair_reported_any_strength(Table, p[1], p[2])
          /\ ~pair_reported(Table, p[1], p[2])

\* C5: for a non-empty daily table generate_comprehensive_report neither raises
\* nor returns the no-data message: it returns the text of the report, with its
\* sections in their order.
C5_ReportIsReturned ==
    (pc = "done" /\ Table # NoFrame) =>
        /\ ~report_result.raised
        /\ report_result.text = ReportSections(analyzer)

\* The table of the scenario: 5 days whose daily mean heart rates are 60, 62,
\* 61, 63 and 150, in any order, and no other data.
ScenarioTable ==
    /\ pc \in {"ml_done", "insights_done", "done"}
    /\ Table # NoFrame
    /\ Len(Table.rows) = 5
    /\ {Table.rows[i].avg_heart_rate : i \in DOMAIN Table.rows} =
          {<<r, 1>> : r \in ScenarioRates}
    /\ \A i \in DOMAIN Table.rows :
          ~Table.rows[i].has_sleep_data /\ ~Table.rows[i].has_consumption_data

\* The dates of the rows of the scenario with the value 150.
OutlierDates ==
    {Table.rows[i].date : i \in {k \in DOMAIN Table.rows :
                                    Table.rows[k].avg_heart_rate = <<150, 1>>}}

\* C6 as stated: on the table of the scenario the analysis reports
\* anomaly_days = 1, the flagged day being the one with the value 150.
C6_OutlierIsFlagged ==
    ScenarioTable => ml_results.anomaly_days = 1 /\ ml_results.flagged = OutlierDates

\* C6: on the table of the scenario the analysis reports anomaly_days = 0 and
\* flags no day: the value 150 deviates from the mean 79.2 by 70.8, less than 2
\* standard deviations (2 * 39.6).
C6_NoDayIsFlagged ==
    ScenarioTable =>
        /\ ml_results.status = "success"
        /\ ml_results.total_days_analyzed = 5
        /\ ml_results.anomaly_days = 0
        /\ ml_results.flagged = {}

C6_Witness == ScenarioTable /\ ml_results.status = "success" /\ pc = "ml_done"

\* The events whose date text parses, and those whose time text parses too.
DateParsed == {i \in DOMAIN entries : parse_date(entries[i].date) # 0}

DateAndTimeParsed == {i \in DateParsed : parse_time(entries[i].time) # -1}

Consumption == analyzer.data.consumption_data

HealthLoaded == pc # "start"

\* The samples with a date that parses whose label is among `labels`.
Labelled(labels) ==
    {i \in DOMAIN health_data :
        health_data[i].Type \in labels /\ parse_date(health_data[i].date) # 0}

\* C8: a sample whose label is neither a sleep label nor the heart-rate label of
\* the importer ("Schritte", "Unknown") is added to neither series: the two
\* series hold no more records than there are samples with the other labels.
C8_OtherLabelsReachNoSeries ==
    HealthLoaded =>
        Len(analyzer.data.sleep_data) + Len(analyzer.data.heart_rate_data)
            <= Cardinality(Labelled(ImporterLabels \ ImporterOtherLabels))

\* The records of the sleep series with a subtype.
SleepRecords(subtype) ==
    {k \in DOMAIN analyzer.data.sleep_data :
        analyzer.data.sleep_data[k].sleep_type = subtype}

\* C9: every sample with the label "Schlaf", "Tiefschlaf", "Leichtschlaf",
\* "REM-Schlaf" or "Wachzeit" is in the sleep series with the subtype total,
\* deep, light, rem and wake, and every "Herzfrequenz" sample is in the
\* heart-rate series.
C9_ImporterLabelsAreClassified ==
    HealthLoaded =>
        /\ Cardinality(SleepRecords("total")) = Cardinality(Labelled({Schlaf}))
        /\ Cardinality(SleepRecords("deep")) = Cardinality(Labelled({Tiefschlaf}))
        /\ Cardinality(SleepRecords("light")) = Cardinality(Labelled({Leichtschlaf}))
        /\ Cardinality(SleepRecords("rem")) = Cardinality(Labelled({REM_Schlaf}))
        /\ Cardinality(SleepRecords("wake")) = Cardinality(Labelled({Wachzeit}))
        /\ Len(analyzer.data.heart_rate_data) >= Cardinality(Labelled({Herzfrequenz}))

Effects == analyzer.correlation_results.substance_effects

\* The percent difference of an effect with its two partitions swapped.
Swapped(e) == difference_percent(e.without_substance, e.with_substance)

\* C10 as stated: swapping the partitions negates the percent difference.
C10_SwapNegates ==
    Correlated => \A e \in Effects : Swapped(e) = RatNeg(e.difference_percent)

\* C10: swapping the partitions reverses the sign of the percent difference and
\* scales it by the ratio of the means: swapped * withMean =
\* -(difference * withoutMean); it is the negated value only when the two
\* means are equal.
C10_SwapReversesSign ==
    Correlated =>
        \A e \in Effects :
            LET d == e.difference_percent
                w == e.with_substance
                wo == e.without_substance
            IN /\ w[1] > 0 /\ wo[1] > 0
               /\ d = RatScale(RatDiv(RatSub(w, wo), wo), 100)
               /\ Swapped(e)[1] * w[1] * d[2] * wo[2]
                     = 0 - d[1] * wo[1] * Swapped(e)[2] * w[2]
               /\ (Swapped(e)[1] > 0) = (d[1] < 0)
               /\ (Swapped(e) = RatNeg(d)) = (w = wo)

\* An effect whose two partition means differ.
C10_Witness ==
    /\ Correlated
    /\ \E e \in Effects : e.with_substance # e.without_substance

\* The consumption observations of a date whose hour of day is in [18, 24].
EveningOf(d) ==
    SelectSeq(analyzer.data.consumption_data,
              LAMBDA r : r.datetime.day = d /\ r.datetime.hour \in 18..24)

\* C11: for every date with consumption observations whose evening subset is
\* not empty, the date's row records the distinct substances and the count of
\* the subset, whether or not the date has sleep or heart-rate data.
C11_EveningSubsetRecorded ==
    Combined =>
        \A i \in DOMAIN Table.rows :
            LET evening == EveningOf(Table.rows[i].date)
            IN evening # <<>> =>
                  /\ EveningKeys \subseteq Table.rows[i].keys
                  /\ Table.rows[i].evening_substances =
                        {evening[k].type : k \in DOMAIN evening}
                  /\ Table.rows[i].evening_consumption_count = Len(evening)

HeuristicsReturned == pc \in {"insights_done", "done"} /\ ~heuristics.raised

\* The days of the table on which "Alkohol" was used.
AlcoholDays == {i \in DOMAIN Table.rows : used(Table.rows[i], "Alkohol")}

\* C12: when the daily table has a day on which "Alkohol" was used and the mean
\* sleep efficiency of those days is below 75, _identify_risk_factors returns
\* the warning of the reduced sleep efficiency on days with alcohol.
C12_AlcoholSleepEfficiencyWarning ==
    (/\ HeuristicsReturned
     /\ AlcoholDays # {}
     /\ in_columns(Table, "sleep_efficiency")
     /\ RatLess(rat_mean([k \in 1..Len(Ascending(AlcoholDays)) |->
                            sleep_efficiency(Table.rows[Ascending(AlcoholDays)[k]])]),
                <<75, 1>>))
        => "alcohol_sleep_efficiency" \in heuristics.warnings

\* C13: for a non-empty daily table the patterns, the recommendations, the
\* personal insights and the risk warnings are each non-empty, and a
\* placeholder entry is the only entry of its collection.
C13_HeuristicCollectionsNonEmpty ==
    (HeuristicsReturned /\ Table # NoFrame) =>
        /\ ml_results.patterns # {}
        /\ ml_results.recommendations # {}
        /\ heuristics.insights # {}
        /\ heuristics.warnings # {}
        /\ NoPatterns \subseteq ml_results.patterns => ml_results.patterns = NoPatterns
        /\ NoRecommendations \subseteq ml_results.recommendations
              => ml_results.recommendations = NoRecommendations
        /\ NoInsights \subseteq heuristics.insights => heuristics.insights = NoInsights

\* The called pair is not in the fixed phrase table, in either order.
GenericPhrase ==
    /\ pc = "interpreted"
    /\ <<interpret_call.col1, interpret_call.col2>> \notin PhrasePairs
    /\ <<interpret_call.col2, interpret_call.col1>> \notin PhrasePairs

\* C14: for a pair that is not in the phrase table the strength is weak when
\* |r| < 0.4, moderate when 0.4 <= |r| < 0.7 and strong when |r| >= 0.7, and the
\* direction is positive for r > 0 and negative for r < 0.
C14_StrengthBuckets ==
    GenericPhrase =>
        LET r == interpret_call.corr
            sq == 100 * r.cov * r.cov
            vv == r.vx * r.vy
        IN /\ Len(interpret_call.result) = 3
           /\ interpret_call.result[1] =
                 (IF sq < 16 * vv THEN "schwach"
                  ELSE IF sq < 49 * vv THEN "maessig" ELSE "stark")
           /\ r.cov > 0 => interpret_call.result[2] = "positive"
           /\ r.cov < 0 => interpret_call.result[2] = "negative"

\* The rows of the dates with heart-rate observations and no sleep observations.
HeartRateOnlyRows ==
    {i \in DOMAIN Table.rows :
        /\ Table.rows[i].date \in dates_of(analyzer.data.heart_rate_data)
        /\ Table.rows[i].date \notin dates_of(analyzer.data.sleep_data)}

SleepFields == {"total_sleep_min", "deep_sleep_min", "light_sleep_min",
                "rem_sleep_min", "wake_min"}

\* The five sleep fields of a row are zero.
ZeroSleep(row) ==
    /\ row.total_sleep_min = 0 /\ row.deep_sleep_min = 0 /\ row.light_sleep_min = 0
    /\ row.rem_sleep_min = 0 /\ row.wake_min = 0

Domains ==
    {<<"has_sleep_data", analyzer.data.sleep_data>>,
     <<"has_heart_rate_data", analyzer.data.heart_rate_data>>,
     <<"has_consumption_data", analyzer.data.consumption_data>>}

flag_of(row, flag) ==
    CASE flag = "has_sleep_data" -> row.has_sleep_data
      [] flag = "has_heart_rate_data" -> row.has_heart_rate_data
      [] flag = "has_consumption_data" -> row.has_consumption_data

\* C16: in every row and for each domain the presence flag is a boolean that is
\* true exactly when the domain has an observation on the row's date and false
\* otherwise.
C16_PresenceFlagsAreBooleans ==
    Combined =>
        \A i \in DOMAIN Table.rows : \A dom \in Domains :
            /\ dom[1] \in Table.rows[i].keys
            /\ flag_of(Table.rows[i], dom[1]) = (Table.rows[i].date \in dates_of(dom[2]))

\* The record perform_correlation_analysis returned for a substance and a metric.
EffectsReturned(substance, metric) ==
    {e \in correlation_return.substance_effects :
        e.substance = substance /\ e.metric = metric}

\* Both partitions of the days exist and have a mean of the metric.
MeansDefined(substance, metric) ==
    /\ in_columns(Table, metric)
    /\ \E i \in DOMAIN Table.rows : used(Table.rows[i], substance)
    /\ \E i \in DOMAIN Table.rows : ~used(Table.rows[i], substance)

\* C17 as stated: a substance-effect record is kept if and only if both
\* partitions have a nonzero mean of the metric.
C17_EffectKeptIffMeansNonzero ==
    (Correlated /\ Table # NoFrame) =>
        \A substance \in unique_substances(Table), metric \in EffectMetrics :
            (EffectsReturned(substance, metric) # {}) =
                (/\ MeansDefined(substance, metric)
                 /\ partition_mean(Table, substance, metric, TRUE)[1] # 0
                 /\ partition_mean(Table, substance, metric, FALSE)[1] # 0)

\* C17: a substance-effect record is kept if and only if both partitions have a
\* positive mean of the metric, whatever the magnitude of the difference.
C17_EffectKeptIffMeansPositive ==
    (Correlated /\ Table # NoFrame) =>
        \A substance \in unique_substances(Table), metric \in EffectMetrics :
            (EffectsReturned(substance, metric) # {}) =
                (/\ MeansDefined(substance, metric)
                 /\ partition_mean(Table, substance, metric, TRUE)[1] > 0
                 /\ partition_mean(Table, substance, metric, FALSE)[1] > 0)

\* A kept record whose difference is not above the threshold of the phrases.
C17_Witness ==
    /\ Correlated
    /\ \E e \in correlation_return.substance_effects :
          ~RatLess(<<ClearEffect, 1>>,
                   <<Abs(e.difference_percent[1]), e.difference_percent[2]>>)

\* No health data, and events that all parse and share substance, rating and cost.
ConstantConsumptionOnly ==
    /\ health_data = <<>>
    /\ entries # <<>>
    /\ \A i \in DOMAIN entries :
          /\ consumption_kept(entries[i])
          /\ entries[i].substance = entries[1].substance
          /\ entries[i].rating = entries[1].rating
          /\ entries[i].cost = entries[1].cost

EventDates == {parse_date(entries[i].date) : i \in DOMAIN entries}

\* C18: with no health data and events of one substance, rating and cost on N
\* distinct dates, the analysis has N days, no correlation, no substance effect
\* and no anomaly.
C18_ConstantConsumptionOnly ==
    (ConstantConsumptionOnly /\ pc \in {"ml_done", "insights_done", "done"}) =>
        /\ correlation_return.status = "success"
        /\ correlation_return.total_days = Cardinality(EventDates)
        /\ correlation_return.correlations = <<>>
        /\ correlation_return.substance_effects = {}
        /\ ml_results.status = "success"
        /\ ml_results.total_days_analyzed = Cardinality(EventDates)
        /\ ml_results.anomaly_days = 0

\* The case of the specification: ConsumptionDates dates, Cannabis, rating 5, cost 0.
C18_Witness ==
    /\ ConstantConsumptionOnly
    /\ pc = "ml_done"
    /\ Cardinality(EventDates) = ConsumptionDates
    /\ entries[1].substance = "Cannabis"
    /\ entries[1].rating = Num(5)
    /\ entries[1].cost = Num(0)
    /\ ml_results.total_days_analyzed = ConsumptionDates

\* The number of observations of a series that agree with a record on the
\* given fields, and the number of records of a batch that equal a record.
Copies(batch, rec) == Cardinality({i \in DOMAIN batch : batch[i] = rec})

SleepObservations(e) ==
    Cardinality({i \in DOMAIN analyzer.data.sleep_data :
        LET o == analyzer.data.sleep_data[i]
        IN o.date = e.date /\ o.time = e.time /\ o.value_minutes = e.value.v})

HeartRateObservations(e) ==
    Cardinality({i \in DOMAIN analyzer.data.heart_rate_data :
        LET o == analyzer.data.heart_rate_data[i]
        IN o.date = e.date /\ o.time = e.time /\ o.heart_rate = e.value.v})

ConsumptionObservations(e) ==
    Cardinality({i \in DOMAIN analyzer.data.consumption_data :
        LET o == analyzer.data.consumption_data[i]
        IN /\ o.date = e.date /\ o.time = e.time
           /\ o.rating = e.rating.v /\ o.cost = e.cost.v})

\* The observations of a health sample, in the series of its domain.
HealthObservations(e) ==
    IF is_sleep_type(entry_type_of(e)) THEN SleepObservations(e)
    ELSE HeartRateObservations(e)

DateParses(rec) == parse_date(rec.date) # 0

TimeParses(rec) == parse_time(rec.time) # -1

\* Each record of the two batches has as many observations as it has copies
\* when it is valid, and none when it is not.
OnePerValidRecord(valid_sample(_), valid_entry(_)) ==
    /\ \A i \in DOMAIN health_data :
          HealthObservations(health_data[i]) =
             (IF valid_sample(health_data[i])
              THEN Copies(health_data, health_data[i]) ELSE 0)
    /\ \A i \in DOMAIN entries :
          ConsumptionObservations(entries[i]) =
             (IF valid_entry(entries[i]) THEN Copies(entries, entries[i]) ELSE 0)
    /\ Len(analyzer.data.sleep_data) + Len(analyzer.data.heart_rate_data) =
          Cardinality({i \in DOMAIN health_data : valid_sample(health_data[i])})
    /\ Len(analyzer.data.consumption_data) =
          Cardinality({i \in DOMAIN entries : valid_entry(entries[i])})

C20_NoTableGivesNoData ==
    (pc = "done" /\ Table = NoFrame) =>
        /\ ~report_result.raised
        /\ report_result.text = NoDataMessage
        /\ correlation_return.status = "no_data"
        /\ ml_results.status = "no_data"

\* All three methods have returned on inputs none of which gave an observation.
C20_Witness ==
    /\ pc = "done"
    /\ Table = NoFrame
    /\ health_data # <<>>
    /\ entries # <<>>
    /\ report_result.text = NoDataMessage
    /\ correlation_return.status = "no_data"

\* perform_machine_learning_analysis has returned.
MLReturned == pc \in {"ml_done", "insights_done", "done"}

\* C21: for a non-empty table without a heart-rate metric,
\* perform_machine_learning_analysis returns anomaly count 0 and anomaly
\* percentage 0.
C21_NoHeartRateMetricNoAnomaly ==
    (MLReturned /\ Table # NoFrame /\ "avg_heart_rate" \notin Table.columns) =>
        /\ ml_results.status = "success"
        /\ ml_results.anomaly_days = 0
        /\ ml_results.anomaly_percentage = Zero
        /\ ml_results.flagged = {}

\* The analysis has returned for a table of several days without heart rate.
C21_Witness ==
    /\ MLReturned
    /\ Len(Table.rows) >= 2
    /\ "avg_heart_rate" \notin Table.columns
    /\ ml_results.total_days_analyzed = Len(Table.rows)

\* The samples of a date whose label has "deep" in it, and those of the other
\* sleep labels.
DeepOn(d) ==
    {i \in DOMAIN health_data :
        health_data[i].Type \in DeepLabels /\ parse_date(health_data[i].date) = d}

OtherOn(d) ==
    {i \in DOMAIN health_data :
        health_data[i].Type \in {Schlaf, REM_Schlaf} /\ parse_date(health_data[i].date) = d}

RECURSIVE ValueSum(_)
ValueSum(ix) ==
    IF ix = {} THEN 0
    ELSE LET i == CHOOSE i \in ix : TRUE
         IN health_data[i].value.v + ValueSum(ix \ {i})

\* C22: a sample whose label holds "deep" in any letter case becomes a sleep
\* observation of subtype deep and no heart-rate observation; its value is in
\* the deep-sleep total of its date's row and in no other stage total.
C22_DeepLabelIsDeepSleep ==
    Combined =>
        /\ \A i \in DOMAIN health_data :
              health_data[i].Type \in DeepLabels =>
                 /\ \E k \in DOMAIN analyzer.data.sleep_data :
                       LET o == analyzer.data.sleep_data[k]
                       IN /\ o.sleep_type = "deep"
                          /\ o.date = health_data[i].date
                          /\ o.value_minutes = health_data[i].value.v
        /\ Cardinality({k \in DOMAIN analyzer.data.sleep_data :
                           analyzer.data.sleep_data[k].sleep_type = "deep"}) =
              Cardinality({i \in DOMAIN health_data : health_data[i].Type \in DeepLabels})
        /\ \A d \in 1..2 :
              DeepOn(d) # {} =>
                 \E r \in DOMAIN Table.rows :
                    /\ Table.rows[r].date = d
                    /\ Table.rows[r].deep_sleep_min = ValueSum(DeepOn(d))
                    /\ Table.rows[r].total_sleep_min + Table.rows[r].light_sleep_min
                          + Table.rows[r].rem_sleep_min + Table.rows[r].wake_min
                       = ValueSum(OtherOn(d))

\* The case of the specification: "Deep Sleep Minutes", 90, 2024-01-01, alone
\* on its date.
C22_Witness ==
    /\ Combined
    /\ \E i \in DOMAIN health_data :
          health_data[i] = Sample(DeepSleepMinutes, Num(90), IsoDates[1], MidnightTime)
    /\ \E r \in DOMAIN Table.rows :
          /\ Table.rows[r].date = 1
          /\ Table.rows[r].deep_sleep_min = 90
          /\ Table.rows[r].total_sleep_min = 0
          /\ Table.rows[r].rem_sleep_min = 0

\* The distinct values of a column of the table.
DistinctValues(col) == {cell(Table.rows[i], col) : i \in DOMAIN Table.rows}

\* The pairs the loops of a call went through, and the pairs it reported.
PairsConsidered == column_pairs(correlation_return.numeric_columns)

PairsReported ==
    [k \in DOMAIN correlation_return.correlations |->
        {correlation_return.correlations[k].col1,
         correlation_return.correlations[k].col2}]

\* C23: only a metric with more than one distinct value takes part in the
\* pairwise correlation, every unordered pair of such metrics is gone through
\* exactly once, and no pair is reported in both orders.
C23_EligibleMetricsPairedOnce ==
    (pc = "correlated" /\ Table # NoFrame) =>
        LET cols == Range(correlation_return.numeric_columns)
            considered == {{PairsConsidered[k][1], PairsConsidered[k][2]} :
                              k \in DOMAIN PairsConsidered}
            reported == PairsReported
        IN /\ \A c \in cols : Cardinality(DistinctValues(c)) > 1
           /\ considered = {{a, b} : a, b \in cols} \ {{c} : c \in cols}
           /\ Cardinality(considered) = Len(PairsConsidered)
           /\ \A k \in DOMAIN reported :
                 /\ reported[k] \in considered
                 /\ \A j \in DOMAIN reported : j # k => reported[j] # reported[k]

\* A table with a constant column, next to a reported pair.
C23_Witness ==
    /\ pc = "correlated"
    /\ correlation_return.correlations # <<>>
    /\ \E c \in Range(CandidateCols) :
          /\ in_columns(Table, c)
          /\ Cardinality(DistinctValues(c)) = 1
          /\ c \notin Range(correlation_return.numeric_columns)

\* The sums of three columns of the table; a cell of avg_heart_rate is a whole
\* number when each day has one sample, and the mean of consumption_count is
\* taken over the rows that have the cell.
SleepTotal == Sum([i \in DOMAIN Table.rows |-> Table.rows[i].total_sleep_min])

HeartRateTotal == Sum([i \in DOMAIN Table.rows |-> Table.rows[i].avg_heart_rate[1]])

ConsumptionRows ==
    {i \in DOMAIN Table.rows : "consumption_count" \in Table.rows[i].keys}

ConsumptionTotal ==
    Sum([i \in DOMAIN Table.rows |->
            IF i \in ConsumptionRows THEN Table.rows[i].consumption_count ELSE 0])

\* C24: the recommendations are those of the four fixed rules on the column
\* means: sleep below 360, sleep above 540, heart rate above 80, consumption
\* count above 1; a mean on a threshold gives nothing, and the two sleep
\* recommendations never come together.
C24_RecommendationRules ==
    (pc = "ml_done" /\ Table # NoFrame) =>
        LET n == Len(Table.rows)
            recs == ml_results.recommendations
        IN /\ \A i \in DOMAIN Table.rows : Table.rows[i].avg_heart_rate[2] = 1
           /\ (<<"Schlafdauer erhoehen">> \in recs) =
                 ("total_sleep_min" \in Table.columns /\ SleepTotal < 360 * n)
           /\ (<<"Schlafdauer moeglicherweise zu hoch">> \in recs) =
                 ("total_sleep_min" \in Table.columns /\ SleepTotal > 540 * n)
           /\ (<<"Ruheherzfrequenz senken">> \in recs) =
                 ("avg_heart_rate" \in Table.columns /\ HeartRateTotal > 80 * n)
           /\ (<<"Konsumhaeufigkeit reduzieren">> \in recs) =
                 (/\ "consumption_count" \in Table.columns
                  /\ ConsumptionTotal > Cardinality(ConsumptionRows))
           /\ ~({<<"Schlafdauer erhoehen">>, <<"Schlafdauer moeglicherweise zu hoch">>}
                   \subseteq recs)
           /\ recs \subseteq {<<"Schlafdauer erhoehen">>,
                              <<"Schlafdauer moeglicherweise zu hoch">>,
                              <<"Ruheherzfrequenz senken">>,
                              <<"Konsumhaeufigkeit reduzieren">>} \cup NoRecommendations

\* Two different days whose means are on the thresholds 360, 80 and 1.
C24_Witness ==
    /\ pc = "ml_done"
    /\ Len(Table.rows) = 2
    /\ Table.rows[1].total_sleep_min # Table.rows[2].total_sleep_min
    /\ SleepTotal = 720
    /\ Table.rows[1].avg_heart_rate # Table.rows[2].avg_heart_rate
    /\ HeartRateTotal = 160
    /\ ConsumptionRows = {1, 2}
    /\ ConsumptionTotal = 2
    /\ ml_results.recommendations = NoRecommendations

\* The run of the analysis on the session's inputs from the present analyzer.
FirstRun == analysed(analyzer, health_data, entries)

\* C25: run twice in a row on the same analyzer and the same inputs, the
\* analysis gives the same series, the same table, the same correlation and
\* substance-effect results and the same anomaly count.
C25_SecondRunEqualsFirst ==
    (pc = "session" /\ (health_data # <<>> \/ entries # <<>>)) =>
        LET first == FirstRun
            second == analysed(first.analyzer, health_data, entries)
        IN /\ second.combined = first.combined
           /\ second.analyzer.data = first.analyzer.data
           /\ second.analyzer.correlation_results = first.analyzer.correlation_results
           /\ anomalies_of(second.analyzer.data.combined_data) =
                 anomalies_of(first.analyzer.data.combined_data)

\* The analyzer holds the results of a run on the session's inputs, which has
\* observations of the three domains.
C25_Witness ==
    /\ pc = "session"
    /\ entries # <<>>
    /\ FirstRun.analyzer = analyzer
    /\ Table # NoFrame
    /\ analyzer.data.sleep_data # <<>>
    /\ analyzer.data.heart_rate_data # <<>>
    /\ analyzer.data.consumption_data # <<>>
    /\ analyzer.correlation_results.status = "success"

\* The dates of the rows whose has_heart_rate_data is true.
HeartRateDates ==
    {Table.rows[i].date : i \in {j \in DOMAIN Table.rows :
        /\ "has_heart_rate_data" \in Table.rows[j].keys
        /\ Table.rows[j].has_heart_rate_data}}

\* C26: perform_machine_learning_analysis flags only days that have heart-rate
\* data, and counts no other day in anomaly_days.
C26_OnlyHeartRateDaysFlagged ==
    (MLReturned /\ Table # NoFrame) =>
        /\ ml_results.flagged \subseteq HeartRateDates
        /\ ml_results.anomaly_days = Cardinality(ml_results.flagged \cap HeartRateDates)

\* The rows of the days with sleep data, and the sum of their sleep totals.
SleepRows ==
    {i \in DOMAIN Table.rows :
        "has_sleep_data" \in Table.rows[i].keys /\ Table.rows[i].has_sleep_data}

RealSleepTotal ==
    Sum([i \in DOMAIN Table.rows |->
            IF i \in SleepRows THEN Table.rows[i].total_sleep_min ELSE 0])

\* The days the warning may count: high heart rate and a low sleep total that
\* was measured.
HighRateLowSleepDays ==
    {i \in SleepRows :
        /\ RatLess(<<85, 1>>, Table.rows[i].avg_heart_rate)
        /\ Table.rows[i].total_sleep_min < 300}

\* The warning: a day without sleep data does not count toward the more
\* than 3 days of high heart rate and low sleep.
WarningCountsMeasuredSleepOnly ==
    (pc = "insights_done" /\ ~heuristics.raised) =>
        ("high_hr_low_sleep" \in heuristics.warnings =>
            Cardinality(HighRateLowSleepDays) > 3)

\* The means: the mean total sleep the recommendations and the insights
\* compare with 360 and 540 is that of the days with sleep data.
MeanOfMeasuredSleepOnly ==
    (pc = "insights_done" /\ ~heuristics.raised /\ SleepRows # {}) =>
        LET low == RealSleepTotal < 360 * Cardinality(SleepRows)
            high == RealSleepTotal > 540 * Cardinality(SleepRows)
        IN /\ (<<"Schlafdauer erhoehen">> \in ml_results.recommendations) = low
           /\ (<<"Schlafdauer moeglicherweise zu hoch">> \in ml_results.recommendations) = high
           /\ (<<"Schlafdauer gering">> \in heuristics.insights) = low
           /\ (<<"Schlafdauer ueberdurchschnittlich hoch">> \in heuristics.insights) = high

\* C27: the threshold rules never take the zero-filled sleep total of a day
\* without sleep data for a sleep duration.
C27_ZeroFilledSleepIsNotSleep ==
    WarningCountsMeasuredSleepOnly /\ MeanOfMeasuredSleepOnly

\* A step changes the stored report or the stored correlation results.
StoredResultsChange ==
    \/ ki_analysis_results' # ki_analysis_results
    \/ correlation_analysis_results' # correlation_analysis_results

\* Both stored results are those of the run the step made.
BothReplacedByRun ==
    /\ ki_analysis_results' = generate_comprehensive_report(analyzer').text
    /\ ~generate_comprehensive_report(analyzer').raised
    /\ correlation_analysis_results' = analyzer'.correlation_results

\* Both stored results are None and the analyzer is a new one.
BothReset ==
    /\ ki_analysis_results' = NoneText
    /\ correlation_analysis_results' = NoneResults
    /\ analyzer' = NewAnalyzer

C29_KeyRoundTrip ==
    pc = "shown" =>
        interpret_call.shown = <<column_text(interpret_call.col1),
                                 column_text(interpret_call.col2)>>

\* df[col].sum() of a count column: the rows that lack the key hold NaN and
\* are skipped.
CountSum(col) ==
    Sum([i \in 1..Len(Table.rows) |->
            IF col \notin Table.rows[i].keys THEN 0
            ELSE IF col = "consumption_count" THEN Table.rows[i].consumption_count
            ELSE Table.rows[i].heart_rate_entries])

\* The sum of one stage column over the rows of the table.
StageSum(t) ==
    Sum([i \in 1..Len(Table.rows) |->
            CASE t = "total" -> Table.rows[i].total_sleep_min
              [] t = "deep" -> Table.rows[i].deep_sleep_min
              [] t = "light" -> Table.rows[i].light_sleep_min
              [] t = "rem" -> Table.rows[i].rem_sleep_min
              [] t = "wake" -> Table.rows[i].wake_min])

\* The sum of the values of the loaded sleep observations of one subtype.
LoadedMinutes(t) ==
    LET sleep == analyzer.data.sleep_data
    IN Sum([i \in 1..Len(sleep) |->
               IF sleep[i].sleep_type = t THEN sleep[i].value_minutes ELSE 0])

\* C30: combine_data neither loses nor double-counts observations: over the
\* rows of the table consumption_count adds up to the number of loaded
\* consumption observations, heart_rate_entries to the number of loaded
\* heart-rate observations, and each stage's minutes to the sum of the values
\* of the loaded sleep observations of that subtype.
C30_ObservationsConserved ==
    pc = "combined" =>
        /\ CountSum("consumption_count") = Len(analyzer.data.consumption_data)
        /\ CountSum("heart_rate_entries") = Len(analyzer.data.heart_rate_data)
        /\ \A t \in {"total", "deep", "light", "rem", "wake"} :
              StageSum(t) = LoadedMinutes(t)

\* A table of two rows built from two consumption observations of one date,
\* two deep-sleep observations of one date and a heart-rate observation.
C30_Witness ==
    /\ pc = "combined"
    /\ Len(Table.rows) = 2
    /\ \E i \in DOMAIN Table.rows : Table.rows[i].consumption_count = 2
    /\ \E i \in DOMAIN Table.rows : Table.rows[i].deep_sleep_min = 180
    /\ Len(analyzer.data.heart_rate_data) = 1
    /\ Len(analyzer.data.consumption_data) = 3

====
